---- MODULE Spec2Model ----
(***************************************************************************)
(* State-machine model of the Flutter session registry / frame delivery    *)
(* (src/src/flutter.rs) and of the privacy-mode arbiter                    *)
(* (src/src/privacy_mode.rs).                                              *)
(*                                                                         *)
(* Every public operation is one action that models the whole call; the    *)
(* last call and what it returned are kept in `ret`.  Event sinks          *)
(* (StreamSink) are numbered in the order in which the callers create      *)
(* them; `sink_log[k]` is the sequence of events sink k has received.      *)
(***************************************************************************)
EXTENDS Integers, Sequences, FiniteSets, TLC

VARIABLES
    feature_texture_render, \* cfg(feature = "flutter_texture_render") of the build
    SESSIONS,          \* sessions::SESSIONS : (peer id, conn type) -> session object (0 = no entry)
    session_handlers,  \* per session object: SessionID -> SessionHandler
    display_rgbas,     \* per session object: display -> RgbaData   (owned-buffer build)
    peer_multi,        \* per session object: is_support_multi_ui_session(peer_info.version)
    next_obj,          \* number of Session objects constructed so far
    next_sink,         \* number of StreamSinks handed in so far
    sink_log,          \* per sink: the events it has received, in order
    spawned,           \* per session object: transport loops spawned by session_start_ (counted up to 2)
    ret,               \* the last call and its outcome
    plugin_resolved,   \* whether the symbol FlutterRgbaRendererPluginOnRgba was resolved
    since_next,        \* history: per session object and display, the frames
                       \* pushed since the last next_rgba (first frame, count),
                       \* and the session ids that got a non-null pointer from
                       \* get_rgba and have not called next_rgba since

    PRIVACY_MODE,      \* privacy_mode::PRIVACY_MODE : the active implementation instance or NoImpl
    platform,          \* what the build and the machine support (fixed)
    option_impl,       \* the option "privacy-mode-impl-key"
    granted,           \* history: the connection whose turn_on_privacy succeeded and
                       \* whose ownership no turn-off has released since (0 = none)
    pm_ret,            \* the last arbiter call and its outcome

    GLOBAL_EVENT_STREAM, \* GLOBAL_EVENT_STREAM : channel name -> StreamSink
    global_sinks,      \* per StreamSink handed to start_global_event_stream, in the
                       \* order of the calls: the events received, and as history
                       \* the name it was started under and whether that name was
                       \* stopped since
    global_ret,        \* the last global event stream call and its outcome

    connection_round_state, \* per session object: Session::connection_round_state
                       \* (the round) and the `round` each transport loop spawned
                       \* for it holds, in the order of the spawns (0 = none yet)
    thread_pc,         \* per thread: the operation it runs and the number of
                       \* lock steps of it that are done
    lock_waiters,      \* the threads that wait for a lock, in the order in
                       \* which they asked

    turn_on_call,      \* the turn_on_privacy call that holds PRIVACY_MODE's
                       \* lock, and how far it is
    remove_call,       \* the remove_session_by_session_id call that is between
                       \* its loop and its SESSIONS.write().remove(..)
    insert_call,       \* the insert_peer_session_id call that has read peer_info
                       \* and has not yet inserted its handler
    on_rgba_call       \* the on_rgba call (texture build) that is between its
                       \* read loop and its write loop

regvars == <<feature_texture_render, SESSIONS, session_handlers, display_rgbas,
             peer_multi, next_obj, next_sink, sink_log, spawned, ret>>
framevars == <<plugin_resolved, since_next>>
pmvars == <<PRIVACY_MODE, platform, option_impl, granted, pm_ret>>
globalvars == <<GLOBAL_EVENT_STREAM, global_sinks, global_ret>>
threadvars == <<connection_round_state, thread_pc, lock_waiters>>
stepvars == <<turn_on_call, remove_call, insert_call, on_rgba_call>>
vars == <<regvars, framevars, pmvars, globalvars, threadvars, stepvars>>

-----------------------------------------------------------------------------
(* Bounds of the model *)

MaxSessionId == 2
MaxObjs == 2
MaxSinks == 2
MaxLog == 2
MaxDisplay == 1
MaxFrameDisplay == 0    \* the displays frames are delivered for: 0..MaxFrameDisplay
MaxFrame == 2
MaxPtr == 1
MaxSize == 2
MaxConn == 2
MaxGlobalSinks == 2
MaxGlobalLog == 2
MaxLoops == 2           \* the transport loops followed per session object
MaxThreads == 2

SessionIDs == 1..MaxSessionId
ObjIds == 1..MaxObjs
SinkIds == 1..MaxSinks
Peers == {"peerA", "peerB"}
Displays == 0..MaxDisplay
RgbaDisplays == 0..MaxFrameDisplay
TexDisplays == 0..MaxFrameDisplay
Frames == 1..MaxFrame          \* contents of decoded frames; 0 is the empty Vec
Ptrs == 0..MaxPtr              \* texture handles; 0 is "unregistered"
Sizes == 1..MaxSize            \* (width, height) pairs; 0 is (0, 0)
ConnTypes == {"DEFAULT_CONN", "FILE_TRANSFER", "PORT_FORWARD", "RDP"}
Keys == Peers \X ConnTypes
NoObj == 0
NoSink == 0

-----------------------------------------------------------------------------
(* Data *)

\* EventToUI::Event(String): `json` tells a serialized push_event record from
\* the bare "close" string.
EventEv(s, isJson) == [t |-> "Event", s |-> s, json |-> isJson, d |-> 0]
\* EventToUI::Rgba(display)
RgbaEv(d) == [t |-> "Rgba", s |-> "", json |-> FALSE, d |-> d]
CloseEv == EventEv("close", FALSE)

EmptyMap == [x \in {} |-> 0]

\* VideoRenderer::default()
DefaultRenderer == [is_support_multi_ui_session |-> FALSE,
                    map_display_sessions |-> EmptyMap]

\* History kept with a handler: since notify_rendered was last cleared (or the
\* handler was created), the on_rgba calls that found a sink installed and the
\* Rgba events sent (both counted up to 2).
NewHist == [frames |-> 0, rgbas |-> 0]
Count2(n) == IF n < 2 THEN n + 1 ELSE n

\* SessionHandler::default()
DefaultHandler == [event_stream |-> NoSink,
                   notify_rendered |-> FALSE,
                   renderer |-> DefaultRenderer,
                   hist |-> NewHist]

MapPut(m, k, v) == [x \in (DOMAIN m) \cup {k} |-> IF x = k THEN v ELSE m[x]]
MapDel(m, k) == [x \in (DOMAIN m) \ {k} |-> m[x]]

\* The outcome record of a call: the operation, its session id argument, the
\* session object it acted on (or returned), its result, the session object
\* registered (session_add), the sink handed in, whether a transport loop was
\* spawned, and the display list of the capture_displays command it issued.
\* `val` is the buffer or pointer a frame call hands back, `writes` the
\* (session id, texture handle) pairs the external write callback was invoked
\* for, and `old` the sink session_start_ found installed and replaced.
Ret(op, sid, obj, res, reg, sink, spawn, capture) ==
    [op |-> op, sid |-> sid, obj |-> obj, res |-> res, reg |-> reg,
     sink |-> sink, spawn |-> spawn, capture |-> capture, val |-> 0, writes |-> {},
     old |-> NoSink]

-----------------------------------------------------------------------------
(* Registry lookups *)

Registered == {SESSIONS[k] : k \in Keys} \ {NoObj}

\* The registered sessions whose attachment map carries `sid`.
Carriers(sid) == {o \in Registered : sid \in DOMAIN session_handlers[o]}

KeyOf(o) == CHOOSE k \in Keys : SESSIONS[k] = o

\* session_add: conn_type from the three flags
ConnTypeOf(is_file_transfer, is_port_forward, is_rdp) ==
    IF is_file_transfer THEN "FILE_TRANSFER"
    ELSE IF is_port_forward THEN (IF is_rdp THEN "RDP" ELSE "PORT_FORWARD")
    ELSE "DEFAULT_CONN"

\* try_send_close_event / stream.add: the logs after `ev` is added to sink k
SinkAdd(log, k, ev) ==
    IF k = NoSink THEN log ELSE [log EXCEPT ![k] = Append(@, ev)]

\* room left in sink k for one more event (model bound)
HasRoom(k) == IF k = NoSink THEN TRUE ELSE Len(sink_log[k]) < MaxLog

-----------------------------------------------------------------------------
(* Construction *)

InitRegistry ==
    /\ SESSIONS = [k \in Keys |-> NoObj]
    /\ session_handlers = [o \in ObjIds |-> EmptyMap]
    /\ display_rgbas = [o \in ObjIds |-> EmptyMap]
    /\ peer_multi = [o \in ObjIds |-> FALSE]
    /\ next_obj = 0
    /\ next_sink = 0
    /\ sink_log = [k \in SinkIds |-> <<>>]
    /\ spawned = [o \in ObjIds |-> 0]
    /\ ret = Ret("init", 0, NoObj, "ok", NoObj, NoSink, FALSE, {})

InitFrames(resolved) ==
    /\ plugin_resolved \in resolved
    /\ since_next = [o \in ObjIds |-> [d \in Displays |->
                          [first |-> 0, n |-> 0, readers |-> {}]]]

-----------------------------------------------------------------------------
(* Session lifecycle *)

\* the duplicate-id check with only the first bail!: an id carried under the
\* same conn type is accepted
SessionAddCheckOnlyConnType(sid, conn_type) ==
    IF Carriers(sid) = {} THEN "ok"
    ELSE IF \E o \in Carriers(sid) : KeyOf(o)[2] # conn_type
         THEN "same session id is found with different conn type?"
         ELSE "ok"

\* session_add: the duplicate-id check (both bail! branches)
SessionAddCheck(sid, conn_type) ==
    IF Carriers(sid) = {} THEN "ok"
    ELSE IF \E o \in Carriers(sid) : KeyOf(o)[2] # conn_type
         THEN "same session id is found with different conn type?"
         ELSE "same session id is found"

\* sessions::insert_session: entry((id, conn_type)).or_insert(session), then
\* insert a default handler into the registered session's map.
InsertSessionTarget(key, o) ==
    IF SESSIONS[key] = NoObj THEN o ELSE SESSIONS[key]

SessionAdd(sid, peer, is_file_transfer, is_port_forward, is_rdp) ==
    LET conn_type == ConnTypeOf(is_file_transfer, is_port_forward, is_rdp)
        chk == SessionAddCheck(sid, conn_type)
        o == next_obj + 1
        key == <<peer, conn_type>>
        reg == InsertSessionTarget(key, o)
    IN  IF chk # "ok"
        THEN /\ ret' = Ret("session_add", sid, NoObj, chk, NoObj, NoSink, FALSE, {})
             /\ UNCHANGED <<feature_texture_render, SESSIONS, session_handlers,
                            display_rgbas, peer_multi, next_obj, next_sink,
                            sink_log, spawned>>
        ELSE /\ next_obj < MaxObjs
             /\ next_obj' = o
             /\ SESSIONS' = [SESSIONS EXCEPT ![key] = reg]
             /\ session_handlers' =
                    [session_handlers EXCEPT ![reg] = MapPut(@, sid, DefaultHandler)]
             /\ ret' = Ret("session_add", sid, o, "ok", reg, NoSink, FALSE, {})
             /\ UNCHANGED <<feature_texture_render, display_rgbas, peer_multi,
                            next_sink, sink_log, spawned>>

\* sessions::insert_peer_session_id: the handler that is inserted
NewPeerHandler(o) ==
    IF feature_texture_render
    THEN [DefaultHandler EXCEPT !.renderer.is_support_multi_ui_session = peer_multi[o]]
    ELSE DefaultHandler

\* insert_peer_session_id that falls back to any registered session when none
\* is registered under (peer, conn_type)
InsertPeerSessionIdAnySession(op, peer, conn_type, sid) ==
    LET o == SESSIONS[<<peer, conn_type>>]
    IN  IF o # NoObj
        THEN /\ session_handlers' =
                    [session_handlers EXCEPT ![o] = MapPut(@, sid, NewPeerHandler(o))]
             /\ ret' = Ret(op, sid, o, "ok", NoObj, NoSink, FALSE, {})
        ELSE IF Registered = {}
        THEN /\ session_handlers' = session_handlers
             /\ ret' = Ret(op, sid, NoObj, "ok", NoObj, NoSink, FALSE, {})
        ELSE \E x \in Registered :
             /\ session_handlers' =
                    [session_handlers EXCEPT ![x] = MapPut(@, sid, NewPeerHandler(x))]
             /\ ret' = Ret(op, sid, NoObj, "ok", NoObj, NoSink, FALSE, {})

\* sessions::insert_peer_session_id; its boolean result is ret.obj # NoObj
InsertPeerSessionId(op, peer, conn_type, sid) ==
    LET o == SESSIONS[<<peer, conn_type>>]
    IN  IF o # NoObj
        THEN /\ session_handlers' =
                    [session_handlers EXCEPT ![o] = MapPut(@, sid, NewPeerHandler(o))]
             /\ ret' = Ret(op, sid, o, "ok", NoObj, NoSink, FALSE, {})
        ELSE /\ session_handlers' = session_handlers
             /\ ret' = Ret(op, sid, NoObj, "ok", NoObj, NoSink, FALSE, {})

\* session_add_existed: only for the default connection; always Ok(())
SessionAddExisted(peer, sid) ==
    /\ InsertPeerSessionId("session_add_existed", peer, "DEFAULT_CONN", sid)
    /\ UNCHANGED <<feature_texture_render, SESSIONS, display_rgbas, peer_multi,
                   next_obj, next_sink, sink_log, spawned>>

\* session_start_: whether the transport loop is spawned
ShouldSpawn(is_connected, o) ==
    ~is_connected /\ Cardinality(DOMAIN session_handlers[o]) = 1

\* session_start_ where a lookup that creates the missing handler
\* (entry(id).or_default()) stands for get_mut(id): the sink is installed
\* in some registered session.
SessionStartUnknownInserting(sid, k) ==
    /\ ret' = Ret("session_start_", sid, NoObj, "No session with peer id",
                  NoObj, k, FALSE, {})
    /\ IF Registered = {}
       THEN session_handlers' = session_handlers
       ELSE \E o \in Registered :
            session_handlers' =
                [session_handlers EXCEPT ![o] =
                    MapPut(@, sid, [DefaultHandler EXCEPT !.event_stream = k])]
    /\ UNCHANGED <<feature_texture_render, SESSIONS, display_rgbas, peer_multi,
                   next_obj, sink_log, spawned>>

\* session_start_ when no registered session carries the id: the bail!
SessionStartUnknown(sid, k) ==
    /\ ret' = Ret("session_start_", sid, NoObj, "No session with peer id",
                  NoObj, k, FALSE, {})
    /\ UNCHANGED <<feature_texture_render, SESSIONS, session_handlers,
                   display_rgbas, peer_multi, next_obj, sink_log, spawned>>

\* session_start_: the sink `next_sink + 1` is the one handed in.
SessionStart(sid) ==
    LET k == next_sink + 1
    IN  /\ next_sink < MaxSinks
        /\ next_sink' = k
        /\ IF Carriers(sid) = {}
           THEN SessionStartUnknown(sid, k)
           ELSE \E o \in Carriers(sid) :
                LET h == session_handlers[o][sid]
                    is_connected == h.event_stream # NoSink
                    spawn == ShouldSpawn(is_connected, o)
                IN  /\ HasRoom(h.event_stream)
                    /\ sink_log' = SinkAdd(sink_log, h.event_stream, CloseEv)
                    /\ session_handlers' =
                           [session_handlers EXCEPT ![o][sid].event_stream = k]
                    /\ spawned' = [spawned EXCEPT ![o] = IF spawn THEN Count2(@) ELSE @]
                    /\ ret' = [Ret("session_start_", sid, o, "ok", NoObj, k, spawn, {})
                               EXCEPT !.old = h.event_stream]
                    /\ UNCHANGED <<feature_texture_render, SESSIONS, display_rgbas,
                                   peer_multi, next_obj>>

\* the remaining displays taken only from the slots with a registered texture
RemainsDisplaysRegistered(current, sid, handlers) ==
    current \cup UNION {{d \in DOMAIN handlers[k].renderer.map_display_sessions :
                            handlers[k].renderer.map_display_sessions[d].texture_rgba_ptr # 0} :
                          k \in (DOMAIN handlers) \ {sid}}

\* sessions::check_remove_unused_displays: the displays listed in the
\* capture_displays command ({} = no command)
RemainsDisplays(current, sid, handlers) ==
    current \cup UNION {DOMAIN handlers[k].renderer.map_display_sessions :
                          k \in (DOMAIN handlers) \ {sid}}

\* the test taken on the map as it was before the handler was removed
ShouldUnregisterStale(handlers) == Cardinality(DOMAIN handlers) <= 1

\* sessions::remove_session_by_session_id: whether the session is unregistered
ShouldUnregister(handlers) == DOMAIN handlers = {}

RemoveSessionBySessionId(sid) ==
    IF Carriers(sid) = {}
    THEN /\ ret' = Ret("remove_session_by_session_id", sid, NoObj, "None",
                       NoObj, NoSink, FALSE, {})
         /\ UNCHANGED <<feature_texture_render, SESSIONS, session_handlers,
                        display_rgbas, peer_multi, next_obj, next_sink, sink_log,
                        spawned>>
    ELSE \E o \in Carriers(sid) :
         LET hs == MapDel(session_handlers[o], sid)
         IN  /\ session_handlers' = [session_handlers EXCEPT ![o] = hs]
             /\ IF ShouldUnregister(hs)
                THEN /\ SESSIONS' = [SESSIONS EXCEPT ![KeyOf(o)] = NoObj]
                     /\ ret' = Ret("remove_session_by_session_id", sid, o, "Some",
                                   NoObj, NoSink, FALSE, {})
                ELSE /\ SESSIONS' = SESSIONS
                     /\ ret' = Ret("remove_session_by_session_id", sid, o, "None",
                                   NoObj, NoSink, FALSE,
                                   IF feature_texture_render
                                   THEN RemainsDisplays({}, sid, hs) ELSE {})
             /\ UNCHANGED <<feature_texture_render, display_rgbas, peer_multi,
                            next_obj, next_sink, sink_log, spawned>>

-----------------------------------------------------------------------------
(* Event fan-out *)

\* the sinks installed in the attachment map of session object o
SinksOf(o) ==
    {session_handlers[o][s].event_stream : s \in DOMAIN session_handlers[o]} \ {NoSink}

\* the logs after `ev` is added to every sink of `sinks`
Broadcast(log, sinks, ev) ==
    [k \in SinkIds |-> IF k \in sinks THEN Append(log[k], ev) ELSE log[k]]

\* FlutterHandler::close_event_stream on session object o
CloseEventStream(o, sid) ==
    /\ o <= next_obj
    /\ IF sid \in DOMAIN session_handlers[o]
       THEN /\ HasRoom(session_handlers[o][sid].event_stream)
            /\ sink_log' = SinkAdd(sink_log, session_handlers[o][sid].event_stream, CloseEv)
       ELSE sink_log' = sink_log
    /\ ret' = Ret("close_event_stream", sid, o, "ok", NoObj, NoSink, FALSE, {})
    /\ UNCHANGED <<feature_texture_render, SESSIONS, session_handlers, display_rgbas,
                   peer_multi, next_obj, next_sink, spawned>>

\* push_event that stops after the first sink it finds
PushEventToOne(log, o, name) ==
    Broadcast(log, IF SinksOf(o) = {} THEN {}
                   ELSE {CHOOSE k \in SinksOf(o) : \A j \in SinksOf(o) : k <= j},
              EventEv(name, TRUE))

\* FlutterHandler::push_event on session object o
PushEvent(log, o, name) == Broadcast(log, SinksOf(o), EventEv(name, TRUE))

\* push_session_event
PushSessionEvent(sid, name) ==
    /\ IF Carriers(sid) = {}
       THEN /\ sink_log' = sink_log
            /\ ret' = Ret("push_session_event", sid, NoObj, "ok", NoObj, NoSink, FALSE, {})
       ELSE \E o \in Carriers(sid) :
            /\ \A k \in SinksOf(o) : HasRoom(k)
            /\ sink_log' = PushEvent(sink_log, o, name)
            /\ ret' = Ret("push_session_event", sid, o, "ok", NoObj, NoSink, FALSE, {})
    /\ UNCHANGED <<feature_texture_render, SESSIONS, session_handlers, display_rgbas,
                   peer_multi, next_obj, next_sink, spawned>>

-----------------------------------------------------------------------------
(* Frame delivery, owned-buffer build (not(feature = "flutter_texture_render")) *)

\* on_rgba that swaps the frame in without marking the slot valid
OnRgbaSlotsKeepingInvalid(slots, d, f) ==
    IF d \in DOMAIN slots
    THEN IF slots[d].valid THEN slots
         ELSE [slots EXCEPT ![d] = [data |-> f, valid |-> FALSE]]
    ELSE MapPut(slots, d, [data |-> f, valid |-> FALSE])

\* FlutterHandler::on_rgba: the slot map after the call.  A display without a
\* slot gets RgbaData::default() with the frame's buffer swapped in.
OnRgbaSlots(slots, d, f) ==
    IF d \in DOMAIN slots
    THEN IF slots[d].valid THEN slots
         ELSE [slots EXCEPT ![d] = [data |-> f, valid |-> TRUE]]
    ELSE MapPut(slots, d, [data |-> f, valid |-> FALSE])

\* FlutterHandler::on_rgba: the buffer left in rgba.raw for the producer
OnRgbaRaw(slots, d, f) ==
    IF d \in DOMAIN slots
    THEN IF slots[d].valid THEN f ELSE slots[d].data
    ELSE 0

\* on_rgba that notifies the sinks whatever the slot holds
OnRgbaNotifiesAlways(slots, d) == TRUE

\* FlutterHandler::on_rgba: whether the call goes on to notify the sinks
OnRgbaNotifies(slots, d) ==
    IF d \in DOMAIN slots THEN ~slots[d].valid ELSE TRUE

\* FlutterHandler::on_rgba, called by the transport loop of session object o
OnRgba(o, d, f) ==
    LET slots == display_rgbas[o]
    IN  /\ ~feature_texture_render
        /\ o \in Registered
        /\ spawned[o] > 0
        /\ display_rgbas' = [display_rgbas EXCEPT ![o] = OnRgbaSlots(slots, d, f)]
        /\ IF OnRgbaNotifies(slots, d)
           THEN /\ \A k \in SinksOf(o) : HasRoom(k)
                /\ sink_log' = Broadcast(sink_log, SinksOf(o), RgbaEv(d))
           ELSE sink_log' = sink_log
        /\ since_next' = [since_next EXCEPT ![o][d] =
                            [first |-> IF @.n = 0 THEN f ELSE @.first, n |-> Count2(@.n),
                             readers |-> @.readers]]
        /\ ret' = [Ret("on_rgba", 0, o, IF OnRgbaNotifies(slots, d) THEN "notified" ELSE "dropped",
                       NoObj, NoSink, FALSE, {})
                   EXCEPT !.val = OnRgbaRaw(slots, d, f)]
        /\ UNCHANGED <<feature_texture_render, SESSIONS, session_handlers, peer_multi,
                       next_obj, next_sink, spawned, plugin_resolved>>

\* FlutterHandler::get_rgba: the frame the returned pointer leads to (0 = null)
GetRgba(o, d) ==
    IF ~feature_texture_render /\ d \in DOMAIN display_rgbas[o]
    THEN IF display_rgbas[o][d].valid THEN display_rgbas[o][d].data ELSE 0
    ELSE 0

\* FlutterHandler::get_rgba: whether the returned pointer is non-null
GetRgbaNonNull(o, d) ==
    IF ~feature_texture_render /\ d \in DOMAIN display_rgbas[o]
    THEN display_rgbas[o][d].valid
    ELSE FALSE

\* session_get_rgba
SessionGetRgba(sid, d) ==
    /\ IF Carriers(sid) = {}
       THEN /\ ret' = Ret("session_get_rgba", sid, NoObj, "null", NoObj, NoSink, FALSE, {})
            /\ since_next' = since_next
       ELSE \E o \in Carriers(sid) :
            /\ ret' = [Ret("session_get_rgba", sid, o,
                           IF GetRgbaNonNull(o, d) THEN "ptr" ELSE "null",
                           NoObj, NoSink, FALSE, {})
                       EXCEPT !.val = GetRgba(o, d)]
            /\ since_next' = IF GetRgbaNonNull(o, d)
                             THEN [since_next EXCEPT ![o][d].readers = @ \cup {sid}]
                             ELSE since_next
    /\ UNCHANGED <<feature_texture_render, SESSIONS, session_handlers, display_rgbas,
                   peer_multi, next_obj, next_sink, sink_log, spawned, plugin_resolved>>

\* FlutterHandler::next_rgba: the slot map after the call
NextRgba(slots, d) ==
    IF d \in DOMAIN slots THEN [slots EXCEPT ![d].valid = FALSE] ELSE slots

\* session_next_rgba
SessionNextRgba(sid, d) ==
    /\ IF Carriers(sid) = {}
       THEN /\ ret' = Ret("session_next_rgba", sid, NoObj, "ok", NoObj, NoSink, FALSE, {})
            /\ UNCHANGED <<display_rgbas, since_next>>
       ELSE \E o \in Carriers(sid) :
            /\ display_rgbas' =
                  [display_rgbas EXCEPT ![o] =
                      IF feature_texture_render THEN @ ELSE NextRgba(@, d)]
            /\ since_next' = [since_next EXCEPT ![o][d] =
                                [first |-> 0, n |-> 0, readers |-> @.readers \ {sid}]]
            /\ ret' = Ret("session_next_rgba", sid, o, "ok", NoObj, NoSink, FALSE, {})
    /\ UNCHANGED <<feature_texture_render, SESSIONS, session_handlers, peer_multi,
                   next_obj, next_sink, sink_log, spawned, plugin_resolved>>

-----------------------------------------------------------------------------
(* Frame delivery, external-target build (feature = "flutter_texture_render") *)

\* set_size that always inserts a new DisplaySessionInfo
RendererSetSizeFresh(r, d, size) ==
    [r EXCEPT !.map_display_sessions =
        MapPut(@, d, [texture_rgba_ptr |-> 0, size |-> size])]

\* VideoRenderer::set_size
RendererSetSize(r, d, size) ==
    [r EXCEPT !.map_display_sessions =
        IF d \in DOMAIN @
        THEN [@ EXCEPT ![d].size = size]
        ELSE MapPut(@, d, [texture_rgba_ptr |-> 0, size |-> size])]

\* VideoRenderer::register_texture
RendererRegisterTexture(r, d, ptr) ==
    [r EXCEPT !.map_display_sessions =
        IF ptr = 0 THEN MapDel(@, d)
        ELSE IF d \in DOMAIN @
             THEN [@ EXCEPT ![d].texture_rgba_ptr = ptr]
             ELSE MapPut(@, d, [texture_rgba_ptr |-> ptr, size |-> 0])]

\* VideoRenderer::register_texture: whether the "unreachable" error is logged
RegisterTextureLogsError(r, d, ptr) ==
    /\ ptr # 0
    /\ d \in DOMAIN r.map_display_sessions
    /\ r.map_display_sessions[d].texture_rgba_ptr # 0
    /\ r.map_display_sessions[d].texture_rgba_ptr # ptr

\* VideoRenderer::on_rgba: the slots the lookup may select.  Without
\* multi-ui-session support it is values().next(), whichever slot the map
\* yields first.
SelectedSlots(r, d) ==
    IF ~r.is_support_multi_ui_session
    THEN {r.map_display_sessions[x] : x \in DOMAIN r.map_display_sessions}
    ELSE IF d \in DOMAIN r.map_display_sessions
         THEN {r.map_display_sessions[d]} ELSE {}

\* on_rgba on the selected slot with the width/height comparison skipped
SlotWriteAnySize(info, size) ==
    IF info.texture_rgba_ptr = 0 THEN 0
    ELSE IF plugin_resolved THEN info.texture_rgba_ptr ELSE 0

\* VideoRenderer::on_rgba on the selected slot: the handle the external write
\* callback is invoked with (0 = the callback is not invoked)
SlotWrite(info, size) ==
    IF info.texture_rgba_ptr = 0 THEN 0
    ELSE IF info.size # size THEN 0
    ELSE IF plugin_resolved THEN info.texture_rgba_ptr ELSE 0

\* VideoRenderer::on_rgba: the possible outcomes
RendererOnRgba(r, d, size) ==
    IF SelectedSlots(r, d) = {} THEN {0}
    ELSE {SlotWrite(info, size) : info \in SelectedSlots(r, d)}

\* FlutterHandler::on_rgba, first loop: the sessions collected for notification
TryNotifySessions(handlers) ==
    {sid \in DOMAIN handlers : ~handlers[sid].notify_rendered}

\* FlutterHandler::on_rgba, second loop: whether handler h is sent Rgba(display)
IsNotified(handlers, sid) ==
    sid \in TryNotifySessions(handlers) /\ handlers[sid].event_stream # NoSink

\* the second loop where the Rgba event is sent but notify_rendered is not set
AfterOnRgbaNoFlag(handlers, sid) ==
    LET h == handlers[sid]
        seen == IF h.event_stream # NoSink
                THEN [h EXCEPT !.hist.frames = Count2(@)] ELSE h
    IN  IF ~h.notify_rendered /\ h.event_stream # NoSink
        THEN [seen EXCEPT !.hist.rgbas = Count2(@)]
        ELSE seen

\* FlutterHandler::on_rgba, second loop: the handler afterwards
AfterOnRgba(handlers, sid) ==
    LET h == handlers[sid]
        seen == IF h.event_stream # NoSink
                THEN [h EXCEPT !.hist.frames = Count2(@)] ELSE h
    IN  IF IsNotified(handlers, sid)
        THEN [seen EXCEPT !.notify_rendered = TRUE, !.hist.rgbas = Count2(@)]
        ELSE seen

\* FlutterHandler::on_rgba, called by the transport loop of session object o
\* with a frame of the given size
OnRgbaTexture(o, d, size) ==
    LET hs == session_handlers[o]
        told == {hs[sid].event_stream : sid \in {x \in DOMAIN hs : IsNotified(hs, x)}}
    IN  /\ feature_texture_render
        /\ o \in Registered
        /\ spawned[o] > 0
        /\ \A k \in told : HasRoom(k)
        /\ \E w \in [DOMAIN hs -> Ptrs] :
              /\ \A sid \in DOMAIN hs : w[sid] \in RendererOnRgba(hs[sid].renderer, d, size)
              /\ ret' = [Ret("on_rgba", 0, o, "ok", NoObj, NoSink, FALSE, {})
                         EXCEPT !.writes = {<<sid, w[sid]>> : sid \in {x \in DOMAIN hs : w[x] # 0}}]
        /\ sink_log' = Broadcast(sink_log, told, RgbaEv(d))
        /\ session_handlers' =
              [session_handlers EXCEPT ![o] = [sid \in DOMAIN hs |-> AfterOnRgba(hs, sid)]]
        /\ UNCHANGED <<feature_texture_render, SESSIONS, display_rgbas, peer_multi,
                       next_obj, next_sink, spawned, framevars>>

\* session_set_size where notify_rendered is left as it is
SetSizeHandlerKeepingFlag(h, d, size) ==
    [h EXCEPT !.renderer = RendererSetSize(@, d, size),
              !.hist = NewHist]

\* session_set_size: the handler afterwards
SetSizeHandler(h, d, size) ==
    [h EXCEPT !.notify_rendered = FALSE,
              !.renderer = RendererSetSize(@, d, size),
              !.hist = NewHist]

\* session_set_size
SessionSetSize(sid, d, size) ==
    /\ IF feature_texture_render /\ Carriers(sid) # {}
       THEN \E o \in Carriers(sid) :
            /\ session_handlers' =
                  [session_handlers EXCEPT ![o][sid] = SetSizeHandler(@, d, size)]
            /\ ret' = Ret("session_set_size", sid, o, "ok", NoObj, NoSink, FALSE, {})
       ELSE /\ session_handlers' = session_handlers
            /\ ret' = Ret("session_set_size", sid, NoObj, "ok", NoObj, NoSink, FALSE, {})
    /\ UNCHANGED <<feature_texture_render, SESSIONS, display_rgbas, peer_multi,
                   next_obj, next_sink, sink_log, spawned, framevars>>

\* session_register_texture: the handler afterwards
RegisterTextureHandler(h, d, ptr) ==
    [h EXCEPT !.renderer = RendererRegisterTexture(@, d, ptr)]

\* session_register_texture; ret.res tells whether the error was logged
SessionRegisterTexture(sid, d, ptr) ==
    /\ IF feature_texture_render /\ Carriers(sid) # {}
       THEN \E o \in Carriers(sid) :
            /\ session_handlers' =
                  [session_handlers EXCEPT ![o][sid] = RegisterTextureHandler(@, d, ptr)]
            /\ ret' = Ret("session_register_texture", sid, o,
                          IF RegisterTextureLogsError(session_handlers[o][sid].renderer, d, ptr)
                          THEN "logged" ELSE "ok",
                          NoObj, NoSink, FALSE, {})
       ELSE /\ session_handlers' = session_handlers
            /\ ret' = Ret("session_register_texture", sid, NoObj, "ok", NoObj, NoSink, FALSE, {})
    /\ UNCHANGED <<feature_texture_render, SESSIONS, display_rgbas, peer_multi,
                   next_obj, next_sink, sink_log, spawned, framevars>>

\* SessionHandler::on_waiting_for_image_dialog_show
DialogShowHandler(h) ==
    IF feature_texture_render
    THEN [h EXCEPT !.notify_rendered = FALSE, !.hist = NewHist]
    ELSE h

\* session_on_waiting_for_image_dialog_show: every session that carries sid
SessionOnWaitingForImageDialogShow(sid) ==
    /\ session_handlers' =
          [o \in ObjIds |->
              IF o \in Carriers(sid)
              THEN [session_handlers[o] EXCEPT ![sid] = DialogShowHandler(@)]
              ELSE session_handlers[o]]
    /\ ret' = Ret("session_on_waiting_for_image_dialog_show", sid, NoObj, "ok",
                  NoObj, NoSink, FALSE, {})
    /\ UNCHANGED <<feature_texture_render, SESSIONS, display_rgbas, peer_multi,
                   next_obj, next_sink, sink_log, spawned, framevars>>

\* FlutterHandler::set_peer_info, called by the transport loop of session object
\* o; `multi` is is_support_multi_ui_session(pi.version)
SetPeerInfo(o, multi) ==
    /\ o \in Registered
    /\ spawned[o] > 0
    /\ peer_multi' = [peer_multi EXCEPT ![o] = multi]
    /\ session_handlers' =
          [session_handlers EXCEPT ![o] =
              [sid \in DOMAIN @ |->
                  IF feature_texture_render
                  THEN [@[sid] EXCEPT !.renderer.is_support_multi_ui_session = multi]
                  ELSE @[sid]]]
    /\ \A k \in SinksOf(o) : HasRoom(k)
    /\ sink_log' = PushEvent(sink_log, o, "peer_info")
    /\ ret' = Ret("set_peer_info", 0, o, "ok", NoObj, NoSink, FALSE, {})
    /\ UNCHANGED <<feature_texture_render, SESSIONS, display_rgbas, next_obj, next_sink,
                   spawned, framevars>>

-----------------------------------------------------------------------------
(* Global event streams (flutter.rs) *)

\* The app types (channel names), as the list of their comma-separated parts:
\* "main", "cm", "remote", "remote,1".
AppTypes == {<<"main">>, <<"cm">>, <<"remote">>, <<"remote", "1">>}
GlobalEvents == {"e1", "e2"}

\* app_type.split(",")[0], as a name
FirstValue(app_type) == <<app_type[1]>>

GlobalRet(op, app_type, event, res) ==
    [op |-> op, app_type |-> app_type, event |-> event, res |-> res]

InitGlobal ==
    /\ GLOBAL_EVENT_STREAM = <<>>
    /\ global_sinks = <<>>
    /\ global_ret = GlobalRet("init", <<>>, "", "Ok")

\* start_global_event_stream: the key the sink is inserted under
StartKey(app_type) ==
    IF FirstValue(app_type) \notin DOMAIN GLOBAL_EVENT_STREAM
    THEN FirstValue(app_type) ELSE app_type

\* start_global_event_stream
StartGlobalEventStream(app_type) ==
    LET s == Len(global_sinks) + 1
        key == StartKey(app_type)
    IN  /\ Len(global_sinks) < MaxGlobalSinks
        /\ GLOBAL_EVENT_STREAM' =
              [k \in (DOMAIN GLOBAL_EVENT_STREAM) \cup {key} |->
                  IF k = key THEN s ELSE GLOBAL_EVENT_STREAM[k]]
        /\ global_sinks' = Append(global_sinks,
                                  [log |-> <<>>, app_type |-> app_type, stopped |-> FALSE])
        /\ global_ret' = GlobalRet("start_global_event_stream", app_type, "", "Ok")

\* stop_global_event_stream
StopGlobalEventStream(app_type) ==
    /\ GLOBAL_EVENT_STREAM' =
          [k \in (DOMAIN GLOBAL_EVENT_STREAM) \ {app_type} |-> GLOBAL_EVENT_STREAM[k]]
    /\ global_sinks' =
          [s \in DOMAIN global_sinks |->
              IF global_sinks[s].app_type = app_type
              THEN [global_sinks[s] EXCEPT !.stopped = TRUE] ELSE global_sinks[s]]
    /\ global_ret' = GlobalRet("stop_global_event_stream", app_type, "", "Ok")

\* push_global_event
PushGlobalEvent(channel, event) ==
    IF channel \in DOMAIN GLOBAL_EVENT_STREAM
    THEN LET s == GLOBAL_EVENT_STREAM[channel]
         IN  /\ Len(global_sinks[s].log) < MaxGlobalLog
             /\ global_sinks' =
                   [global_sinks EXCEPT ![s].log = Append(global_sinks[s].log, event)]
             /\ global_ret' = GlobalRet("push_global_event", channel, event, "Some(true)")
             /\ UNCHANGED GLOBAL_EVENT_STREAM
    ELSE /\ global_ret' = GlobalRet("push_global_event", channel, event, "None")
         /\ UNCHANGED <<GLOBAL_EVENT_STREAM, global_sinks>>

-----------------------------------------------------------------------------
(* Connection rounds *)

LoopIds == 1..MaxLoops

\* ConnectionRoundState is not part of the sources at hand: a counter that
\* new_round increments and returns.
InitRounds ==
    connection_round_state =
        [o \in ObjIds |-> [round |-> 0, loops |-> [i \in LoopIds |-> 0]]]

NewRound(st) == st.round + 1

\* The thread spawned by session_start_ as the i-th loop of session object o
\* starts running: let round = ...new_round(); io_loop(session, round)
LoopNewRound(o, i) ==
    /\ i <= spawned[o]
    /\ connection_round_state[o].loops[i] = 0
    /\ connection_round_state' =
          [connection_round_state EXCEPT ![o] =
              [round |-> NewRound(@),
               loops |-> [@.loops EXCEPT ![i] = NewRound(connection_round_state[o])]]]

-----------------------------------------------------------------------------
(* Locks: which locks each operation takes, in which order *)

Threads == 1..MaxThreads

Acq(l, m) == [a |-> "acq", l |-> l, m |-> m]
Rel(l) == [a |-> "rel", l |-> l, m |-> ""]

\* sessions::get_session_by_session_id: SESSIONS.read() is held while the
\* closure of find() reads session_handlers
GetSessionBySessionIdLocks ==
    <<Acq("SESSIONS", "r"), Acq("session_handlers", "r"),
      Rel("session_handlers"), Rel("SESSIONS")>>

\* sessions::get_sessions
GetSessionsLocks == <<Acq("SESSIONS", "r"), Rel("SESSIONS")>>

\* sessions::insert_session: one expression, both guards live to its end
InsertSessionLocks ==
    <<Acq("SESSIONS", "w"), Acq("session_handlers", "w"),
      Rel("session_handlers"), Rel("SESSIONS")>>

\* sessions::insert_peer_session_id: the guard of the `if let` scrutinee lives
\* through the body
InsertPeerSessionIdLocks ==
    <<Acq("SESSIONS", "r")>>
    \o (IF feature_texture_render
        THEN <<Acq("peer_info", "r"), Rel("peer_info")>> ELSE <<>>)
    \o <<Acq("session_handlers", "w"), Rel("session_handlers"), Rel("SESSIONS")>>

\* session_add
SessionAddLocks == GetSessionBySessionIdLocks \o InsertSessionLocks

\* session_start_ looking the session up again while it still holds the
\* handlers for writing
SessionStartLocksRegistryInside ==
    GetSessionsLocks
    \o <<Acq("session_handlers", "w"),
         Acq("SESSIONS", "r"), Rel("SESSIONS"),
         Rel("session_handlers")>>
    \o <<Acq("session_handlers", "r"), Rel("session_handlers")>>

\* session_start_, with the lookup of the handler, the second lookup and len()
SessionStartLocks ==
    GetSessionsLocks
    \o <<Acq("session_handlers", "w"), Rel("session_handlers")>>
    \o GetSessionBySessionIdLocks
    \o <<Acq("session_handlers", "r"), Rel("session_handlers")>>

\* the thread spawned by session_start_, up to io_loop
LoopNewRoundLocks ==
    <<Acq("connection_round_state", "w"), Rel("connection_round_state")>>

\* sessions::remove_session_by_session_id: the guard of the `for` expression
\* lives through the loop; then SESSIONS.write() again
RemoveSessionBySessionIdLocks ==
    <<Acq("SESSIONS", "w"), Acq("session_handlers", "w")>>
    \o (IF feature_texture_render
        THEN <<Acq("map_display_sessions", "r"), Rel("map_display_sessions")>>
        ELSE <<>>)
    \o <<Rel("session_handlers"), Rel("SESSIONS"),
         Acq("SESSIONS", "w"), Rel("SESSIONS")>>

\* sessions::session_switch_display
SessionSwitchDisplayLocks ==
    <<Acq("SESSIONS", "r"), Acq("session_handlers", "r")>>
    \o (IF feature_texture_render
        THEN <<Acq("map_display_sessions", "r"), Rel("map_display_sessions")>>
        ELSE <<>>)
    \o <<Rel("session_handlers"), Rel("SESSIONS")>>

\* FlutterHandler::on_rgba of either build
OnRgbaLocks ==
    IF feature_texture_render
    THEN <<Acq("session_handlers", "r"),
           Acq("map_display_sessions", "r"), Rel("map_display_sessions"),
           Rel("session_handlers"),
           Acq("session_handlers", "w"), Rel("session_handlers")>>
    ELSE <<Acq("hooks", "r"), Rel("hooks"),
           Acq("display_rgbas", "w"), Rel("display_rgbas"),
           Acq("session_handlers", "r"), Rel("session_handlers")>>

\* session_set_size (empty without the feature)
SessionSetSizeLocks ==
    IF feature_texture_render
    THEN GetSessionsLocks
         \o <<Acq("session_handlers", "w"),
              Acq("map_display_sessions", "w"), Rel("map_display_sessions"),
              Rel("session_handlers")>>
    ELSE <<>>

\* session_register_texture (empty without the feature)
SessionRegisterTextureLocks ==
    IF feature_texture_render
    THEN GetSessionsLocks
         \o <<Acq("session_handlers", "r"),
              Acq("map_display_sessions", "w"), Rel("map_display_sessions"),
              Rel("session_handlers")>>
    ELSE <<>>

\* session_get_rgba
SessionGetRgbaLocks ==
    GetSessionBySessionIdLocks
    \o (IF feature_texture_render THEN <<>>
        ELSE <<Acq("display_rgbas", "r"), Rel("display_rgbas")>>)

\* session_next_rgba
SessionNextRgbaLocks ==
    GetSessionBySessionIdLocks
    \o (IF feature_texture_render THEN <<>>
        ELSE <<Acq("display_rgbas", "w"), Rel("display_rgbas")>>)

\* FlutterHandler::push_event
PushEventLocks == <<Acq("session_handlers", "r"), Rel("session_handlers")>>

\* push_session_event
PushSessionEventLocks == GetSessionBySessionIdLocks \o PushEventLocks

\* FlutterHandler::set_peer_info
SetPeerInfoLocks ==
    <<Acq("peer_info", "w"), Rel("peer_info")>>
    \o (IF feature_texture_render
        THEN <<Acq("session_handlers", "w"), Rel("session_handlers")>> ELSE <<>>)
    \o PushEventLocks

\* privacy_mode::turn_on_privacy and switch: PRIVACY_MODE, then the creators
TurnOnPrivacyLocks ==
    <<Acq("PRIVACY_MODE", "w"),
      Acq("PRIVACY_MODE_CREATOR", "w"), Rel("PRIVACY_MODE_CREATOR"),
      Rel("PRIVACY_MODE")>>

\* privacy_mode::turn_off_privacy
TurnOffPrivacyLocks == <<Acq("PRIVACY_MODE", "w"), Rel("PRIVACY_MODE")>>

LockOps ==
    {"session_add", "session_add_existed", "session_start_", "io_loop",
     "remove_session_by_session_id", "session_switch_display", "on_rgba",
     "session_set_size", "session_register_texture", "session_get_rgba",
     "session_next_rgba", "push_session_event", "set_peer_info",
     "turn_on_privacy", "switch", "turn_off_privacy"}

LockProgram(op) ==
    CASE op = "session_add" -> SessionAddLocks
      [] op = "session_add_existed" -> InsertPeerSessionIdLocks
      [] op = "session_start_" -> SessionStartLocks
      [] op = "io_loop" -> LoopNewRoundLocks
      [] op = "remove_session_by_session_id" -> RemoveSessionBySessionIdLocks
      [] op = "session_switch_display" -> SessionSwitchDisplayLocks
      [] op = "on_rgba" -> OnRgbaLocks
      [] op = "session_set_size" -> SessionSetSizeLocks
      [] op = "session_register_texture" -> SessionRegisterTextureLocks
      [] op = "session_get_rgba" -> SessionGetRgbaLocks
      [] op = "session_next_rgba" -> SessionNextRgbaLocks
      [] op = "push_session_event" -> PushSessionEventLocks
      [] op = "set_peer_info" -> SetPeerInfoLocks
      [] op = "turn_on_privacy" -> TurnOnPrivacyLocks
      [] op = "switch" -> TurnOnPrivacyLocks
      [] op = "turn_off_privacy" -> TurnOffPrivacyLocks
      [] OTHER -> <<>>

Idle == [op |-> "idle", i |-> 0]

InitThreads ==
    /\ thread_pc = [t \in Threads |-> Idle]
    /\ lock_waiters = <<>>

\* the locks held after the first i steps of a program, with their modes
HeldAfter(prog, i) ==
    {<<prog[j].l, prog[j].m>> : j \in
        {j \in 1..i : /\ prog[j].a = "acq"
                      /\ ~\E k \in (j+1)..i : prog[k].a = "rel" /\ prog[k].l = prog[j].l}}

\* the locks thread t holds
Held(t) == HeldAfter(LockProgram(thread_pc[t].op), thread_pc[t].i)

\* the lock thread t asks for next
WaitsFor(t) == LockProgram(thread_pc[t].op)[thread_pc[t].i + 1].l

\* RwLock / Mutex: a writer excludes everyone, readers exclude writers; a
\* thread that asks again for a lock it holds blocks. The locks are handed
\* over fairly: a thread waits behind the threads that asked for the same
\* lock before it.
CanAcquire(t, l, m) ==
    /\ \A h \in Held(t) : h[1] # l
    /\ \A u \in Threads \ {t} : \A h \in Held(u) :
          h[1] = l => (m = "r" /\ h[2] = "r")
    /\ \A j, k \in DOMAIN lock_waiters :
          (lock_waiters[k] = t /\ j < k) => WaitsFor(lock_waiters[j]) # l

\* the waiting threads without thread t
WithoutWaiter(t) == SelectSeq(lock_waiters, LAMBDA u : u # t)

\* thread t is called with operation op
BeginOp(t, op) ==
    /\ thread_pc[t] = Idle
    /\ Len(LockProgram(op)) > 0
    /\ thread_pc' = [thread_pc EXCEPT ![t] = [op |-> op, i |-> 0]]
    /\ lock_waiters' = Append(lock_waiters, t)

\* thread t waits for a lock
Blocked(t) ==
    LET prog == LockProgram(thread_pc[t].op)
        i == thread_pc[t].i + 1
    IN  /\ thread_pc[t] # Idle
        /\ prog[i].a = "acq"
        /\ ~CanAcquire(t, prog[i].l, prog[i].m)

\* thread t performs the next lock step of its operation, and returns after
\* the last
LockStep(t) ==
    LET prog == LockProgram(thread_pc[t].op)
        i == thread_pc[t].i + 1
    IN  /\ thread_pc[t] # Idle
        /\ IF prog[i].a = "acq" THEN CanAcquire(t, prog[i].l, prog[i].m) ELSE TRUE
        /\ thread_pc' = [thread_pc EXCEPT ![t] =
                            IF i = Len(prog) THEN Idle ELSE [op |-> @.op, i |-> i]]
        /\ lock_waiters' =
              IF i < Len(prog) /\ prog[i + 1].a = "acq"
              THEN Append(WithoutWaiter(t), t)
              ELSE WithoutWaiter(t)

-----------------------------------------------------------------------------
(* Privacy mode arbiter (privacy_mode.rs) *)

INVALID_PRIVACY_MODE_CONN_ID == 0
ConnIds == 0..MaxConn

PRIVACY_MODE_IMPL_WIN_EXCLUDE_FROM_CAPTURE == "win_exclude_from_capture"
PRIVACY_MODE_IMPL_WIN_MAG == "win_mag"
PRIVACY_MODE_IMPL_WIN_VIRTUAL_DISPLAY == "win_virtual_display"
ImplKeys == {PRIVACY_MODE_IMPL_WIN_EXCLUDE_FROM_CAPTURE, PRIVACY_MODE_IMPL_WIN_MAG,
             PRIVACY_MODE_IMPL_WIN_VIRTUAL_DISPLAY}
\* the keys callers and the option may name
KeyInputs == ImplKeys \cup {"", "other"}

NoImpl == [impl_key |-> "", conn_id |-> 0, some |-> FALSE]

\* cfg(windows), feature "virtual_display_driver",
\* win_exclude_from_capture::is_supported(),
\* display_service::is_privacy_mode_mag_supported(), platform::is_installed()
Platforms ==
    {p \in [windows : BOOLEAN, vd_feature : BOOLEAN, excl : BOOLEAN,
            mag : BOOLEAN, vd : BOOLEAN] :
        /\ (~p.windows => ~p.vd_feature /\ ~p.excl /\ ~p.mag)
        /\ (~p.vd_feature => ~p.vd)}

\* get_supported_privacy_mode_impl: the keys of the returned list
SupportedImpls ==
    IF ~platform.windows THEN {}
    ELSE (IF platform.excl THEN {PRIVACY_MODE_IMPL_WIN_EXCLUDE_FROM_CAPTURE}
          ELSE IF platform.mag THEN {PRIVACY_MODE_IMPL_WIN_MAG} ELSE {})
         \cup (IF platform.vd_feature /\ platform.vd
               THEN {PRIVACY_MODE_IMPL_WIN_VIRTUAL_DISPLAY} ELSE {})

\* DEFAULT_PRIVACY_MODE_IMPL
DEFAULT_PRIVACY_MODE_IMPL ==
    IF ~platform.windows THEN ""
    ELSE IF platform.excl THEN PRIVACY_MODE_IMPL_WIN_EXCLUDE_FROM_CAPTURE
    ELSE IF platform.mag THEN PRIVACY_MODE_IMPL_WIN_MAG
    ELSE IF platform.vd_feature /\ platform.vd THEN PRIVACY_MODE_IMPL_WIN_VIRTUAL_DISPLAY
    ELSE ""

\* PRIVACY_MODE_CREATOR: the keys that have a creator
Creators ==
    IF ~platform.windows THEN {}
    ELSE (IF platform.excl THEN {PRIVACY_MODE_IMPL_WIN_EXCLUDE_FROM_CAPTURE}
          ELSE {PRIVACY_MODE_IMPL_WIN_MAG})
         \cup (IF platform.vd_feature THEN {PRIVACY_MODE_IMPL_WIN_VIRTUAL_DISPLAY} ELSE {})

\* The implementations (PrivacyModeImpl of win_mag, win_exclude_from_capture,
\* win_virtual_display) are not part of the sources at hand: a new instance
\* owns nothing, clear() forces the owner off, turn_on_privacy records the
\* owner unless the platform refuses, turn_off_privacy checks the caller with
\* check_off_conn_id and releases.
ImplNew(impl_key) == [impl_key |-> impl_key, conn_id |-> INVALID_PRIVACY_MODE_CONN_ID, some |-> TRUE]
ImplClear(pm) == [pm EXCEPT !.conn_id = INVALID_PRIVACY_MODE_CONN_ID]
ImplTurnOn(pm, conn_id, succeeds) == IF succeeds THEN [pm EXCEPT !.conn_id = conn_id] ELSE pm
ImplTurnOnResult(succeeds) == IF succeeds THEN "Ok" ELSE "Err(impl)"

\* PrivacyMode::check_on_conn_id
CheckOnConnId(pm, conn_id) ==
    IF pm.conn_id = conn_id THEN "Ok(true)"
    ELSE IF pm.conn_id # INVALID_PRIVACY_MODE_CONN_ID THEN "OCCUPIED"
    ELSE "Ok(false)"

\* check_off_conn_id without the exemption of the caller
\* INVALID_PRIVACY_MODE_CONN_ID
CheckOffConnIdAnyCaller(pm, conn_id) ==
    IF /\ pm.conn_id # INVALID_PRIVACY_MODE_CONN_ID
       /\ pm.conn_id # conn_id
    THEN "TURN_OFF_OTHER_ID"
    ELSE "Ok"

\* PrivacyMode::check_off_conn_id
CheckOffConnId(pm, conn_id) ==
    IF /\ pm.conn_id # INVALID_PRIVACY_MODE_CONN_ID
       /\ conn_id # INVALID_PRIVACY_MODE_CONN_ID
       /\ pm.conn_id # conn_id
    THEN "TURN_OFF_OTHER_ID"
    ELSE "Ok"

ImplTurnOff(pm, conn_id) ==
    IF CheckOffConnId(pm, conn_id) = "Ok"
    THEN [pm EXCEPT !.conn_id = INVALID_PRIVACY_MODE_CONN_ID] ELSE pm

\* The outcome of an arbiter call: the operation, its arguments, the result,
\* and the clear() calls and constructions performed during the call.
PmRet(op, impl_key, conn_id, res, clears, news) ==
    [op |-> op, impl_key |-> impl_key, conn_id |-> conn_id, res |-> res,
     clears |-> clears, news |-> news]

\* lazy_static PRIVACY_MODE: the instance created on first use
InitialPrivacyMode(option) ==
    LET cur_impl == IF option \in SupportedImpls THEN option ELSE DEFAULT_PRIVACY_MODE_IMPL
    IN  IF cur_impl \in Creators THEN ImplNew(cur_impl) ELSE NoImpl

InitPrivacy ==
    /\ platform \in Platforms
    /\ option_impl \in KeyInputs
    /\ PRIVACY_MODE = InitialPrivacyMode(option_impl)
    /\ granted = 0
    /\ pm_ret = PmRet("init", "", 0, "Ok", 0, 0)

\* get_supported_impl without the configured implementation
GetSupportedImplNoOption(impl_key) ==
    IF impl_key \in SupportedImpls THEN impl_key
    ELSE DEFAULT_PRIVACY_MODE_IMPL

\* get_supported_impl
GetSupportedImpl(impl_key) ==
    IF impl_key \in SupportedImpls THEN impl_key
    ELSE IF option_impl \in SupportedImpls THEN option_impl
    ELSE DEFAULT_PRIVACY_MODE_IMPL

\* switch: whether the instance is replaced
SwitchReplaces(pm, impl_key) ==
    /\ ~(pm.some /\ pm.impl_key = impl_key)
    /\ impl_key \in Creators

\* switch
Switch(impl_key) ==
    /\ PRIVACY_MODE' = IF SwitchReplaces(PRIVACY_MODE, impl_key)
                       THEN ImplNew(impl_key) ELSE PRIVACY_MODE
    /\ pm_ret' = PmRet("switch", impl_key, 0, "Ok", 0,
                       IF SwitchReplaces(PRIVACY_MODE, impl_key) THEN 1 ELSE 0)
    /\ UNCHANGED <<platform, option_impl, granted>>

\* the ownership check without the early return for the owner: the owner's
\* request goes on to the implementation
TurnOnCheckNoEarlyReturn(pm, impl_key, conn_id) ==
    IF ~pm.some THEN "go on"
    ELSE IF CheckOnConnId(pm, conn_id) = "OCCUPIED" THEN "OCCUPIED"
    ELSE "go on"

\* turn_on_privacy: what the ownership check decides before anything changes:
\* "return Ok(true)", "return OCCUPIED", or "go on"
TurnOnCheck(pm, impl_key, conn_id) ==
    IF ~pm.some THEN "go on"
    ELSE IF CheckOnConnId(pm, conn_id) = "Ok(true)"
         THEN (IF pm.impl_key = impl_key THEN "Ok(true)" ELSE "go on")
    ELSE IF CheckOnConnId(pm, conn_id) = "OCCUPIED" THEN "OCCUPIED"
    ELSE "go on"

\* turn_on_privacy: whether the implementation is to be changed
TurnOnChanges(pm, impl_key) == (IF pm.some THEN pm.impl_key ELSE "") # impl_key

\* turn_on_privacy; `succeeds` tells whether the implementation's
\* turn_on_privacy succeeds
TurnOnPrivacy(requested, conn_id, succeeds) ==
    LET pm == PRIVACY_MODE
        impl_key == GetSupportedImpl(requested)
        chk == TurnOnCheck(pm, impl_key, conn_id)
        changes == TurnOnChanges(pm, impl_key)
        cleared == changes /\ impl_key \in Creators /\ pm.some
        installed == IF changes THEN ImplNew(impl_key) ELSE pm
    IN  /\ UNCHANGED <<platform, option_impl>>
        /\ IF chk # "go on"
           THEN /\ PRIVACY_MODE' = pm
                /\ pm_ret' = PmRet("turn_on_privacy", requested, conn_id, chk, 0, 0)
                /\ granted' = IF chk = "Ok(true)" /\ conn_id # 0 THEN conn_id ELSE granted
           ELSE IF changes /\ impl_key \notin Creators
           THEN /\ PRIVACY_MODE' = pm
                /\ pm_ret' = PmRet("turn_on_privacy", requested, conn_id, "Unsupported", 0, 0)
                /\ granted' = granted
           ELSE IF ~installed.some
           THEN /\ PRIVACY_MODE' = pm
                /\ pm_ret' = PmRet("turn_on_privacy", requested, conn_id, "None", 0, 0)
                /\ granted' = granted
           ELSE /\ PRIVACY_MODE' = ImplTurnOn(installed, conn_id, succeeds)
                /\ pm_ret' = PmRet("turn_on_privacy", requested, conn_id,
                                   ImplTurnOnResult(succeeds),
                                   IF cleared THEN 1 ELSE 0, IF changes THEN 1 ELSE 0)
                /\ granted' = IF succeeds /\ conn_id # 0 THEN conn_id
                              ELSE IF cleared THEN 0
                              ELSE granted

\* turn_off_privacy
TurnOffPrivacy(conn_id) ==
    /\ UNCHANGED <<platform, option_impl>>
    /\ IF ~PRIVACY_MODE.some
       THEN /\ PRIVACY_MODE' = PRIVACY_MODE
            /\ pm_ret' = PmRet("turn_off_privacy", "", conn_id, "None", 0, 0)
            /\ granted' = granted
       ELSE /\ PRIVACY_MODE' = ImplTurnOff(PRIVACY_MODE, conn_id)
            /\ pm_ret' = PmRet("turn_off_privacy", "", conn_id,
                               CheckOffConnId(PRIVACY_MODE, conn_id), 0, 0)
            /\ granted' = IF CheckOffConnId(PRIVACY_MODE, conn_id) = "Ok" THEN 0 ELSE granted

\* clear
Clear ==
    /\ UNCHANGED <<platform, option_impl>>
    /\ IF ~PRIVACY_MODE.some
       THEN /\ PRIVACY_MODE' = PRIVACY_MODE
            /\ pm_ret' = PmRet("clear", "", 0, "None", 0, 0)
            /\ granted' = granted
       ELSE /\ PRIVACY_MODE' = ImplClear(PRIVACY_MODE)
            /\ pm_ret' = PmRet("clear", "", 0, "Ok", 1, 0)
            /\ granted' = 0

\* the option "privacy-mode-impl-key" is set (configuration)
SetOption(impl_key) ==
    /\ option_impl' = impl_key
    /\ pm_ret' = PmRet("set_option", impl_key, 0, "Ok", 0, 0)
    /\ UNCHANGED <<PRIVACY_MODE, platform, granted>>

\* get_privacy_mode_conn_id (0 stands for both None and Some(0))
GetPrivacyModeConnId == IF PRIVACY_MODE.some THEN PRIVACY_MODE.conn_id ELSE 0

\* is_in_privacy_mode
IsInPrivacyMode ==
    IF PRIVACY_MODE.some THEN PRIVACY_MODE.conn_id # INVALID_PRIVACY_MODE_CONN_ID ELSE FALSE

\* get_cur_impl_key ("" stands for None)
GetCurImplKey == IF PRIVACY_MODE.some THEN PRIVACY_MODE.impl_key ELSE ""

-----------------------------------------------------------------------------
(* turn_on_privacy step by step, with the other callers of the arbiter *)

NoCall == [stage |-> "none", requested |-> "", conn_id |-> 0, impl_key |-> ""]

NoRemove == [stage |-> "none", sid |-> 0, obj |-> NoObj]

NoInsert == [stage |-> "none", sid |-> 0, obj |-> NoObj, multi |-> FALSE]

NoOnRgba == [stage |-> "none", obj |-> NoObj, display |-> 0, try_notify_sessions |-> {}]

InitSteps ==
    /\ turn_on_call = NoCall
    /\ remove_call = NoRemove
    /\ insert_call = NoInsert
    /\ on_rgba_call = NoOnRgba

\* callers that do not wait for the mutex
PrivacyModeLockIgnored == TRUE

\* PRIVACY_MODE.lock(): the mutex is free
PrivacyModeLockFree == turn_on_call.stage = "none"

\* turn_on_privacy returns from its checks: Ok(true), the occupied error,
\* Unsupported, or None
TurnOnReturnsAtOnce(pm, impl_key, conn_id) ==
    IF TurnOnCheck(pm, impl_key, conn_id) # "go on" THEN TRUE
    ELSE IF TurnOnChanges(pm, impl_key) THEN impl_key \notin Creators
    ELSE ~pm.some

\* turn_on_privacy: the lock is taken, the key resolved, the owner checked
TurnOnBegin(requested, conn_id) ==
    LET impl_key == GetSupportedImpl(requested)
    IN  /\ PrivacyModeLockFree
        /\ IF TurnOnReturnsAtOnce(PRIVACY_MODE, impl_key, conn_id)
           THEN /\ TurnOnPrivacy(requested, conn_id, TRUE)
                /\ turn_on_call' = turn_on_call
           ELSE /\ turn_on_call' = [stage |-> "checked", requested |-> requested,
                                    conn_id |-> conn_id, impl_key |-> impl_key]
                /\ UNCHANGED pmvars

\* turn_on_privacy: privacy_mode.clear() of the implementation to be replaced
TurnOnClear ==
    /\ turn_on_call.stage = "checked"
    /\ TurnOnChanges(PRIVACY_MODE, turn_on_call.impl_key)
    /\ PRIVACY_MODE.some
    /\ PRIVACY_MODE' = ImplClear(PRIVACY_MODE)
    /\ turn_on_call' = [turn_on_call EXCEPT !.stage = "cleared"]
    /\ UNCHANGED <<platform, option_impl, granted, pm_ret>>

\* turn_on_privacy: *privacy_mode_lock = Some(creator(&impl_key))
TurnOnInstall ==
    /\ IF turn_on_call.stage = "cleared" THEN TRUE
       ELSE /\ turn_on_call.stage = "checked"
            /\ TurnOnChanges(PRIVACY_MODE, turn_on_call.impl_key)
            /\ ~PRIVACY_MODE.some
    /\ PRIVACY_MODE' = ImplNew(turn_on_call.impl_key)
    /\ turn_on_call' = [turn_on_call EXCEPT !.stage =
                           IF @ = "cleared" THEN "replaced" ELSE "installed"]
    /\ UNCHANGED <<platform, option_impl, granted, pm_ret>>

\* turn_on_privacy: the implementation's turn_on_privacy(conn_id), the
\* return, the lock released
TurnOnFinish(succeeds) ==
    LET c == turn_on_call
        was_cleared == c.stage = "replaced"
        was_new == c.stage \in {"replaced", "installed"}
    IN  /\ IF was_new THEN TRUE
           ELSE c.stage = "checked" /\ ~TurnOnChanges(PRIVACY_MODE, c.impl_key)
        /\ PRIVACY_MODE' = ImplTurnOn(PRIVACY_MODE, c.conn_id, succeeds)
        /\ pm_ret' = PmRet("turn_on_privacy", c.requested, c.conn_id,
                           ImplTurnOnResult(succeeds),
                           IF was_cleared THEN 1 ELSE 0, IF was_new THEN 1 ELSE 0)
        /\ granted' = IF succeeds /\ c.conn_id # 0 THEN c.conn_id
                      ELSE IF was_cleared THEN 0
                      ELSE granted
        /\ turn_on_call' = NoCall
        /\ UNCHANGED <<platform, option_impl>>

\* get_privacy_mode_conn_id, with get_cur_impl_key
QueryConnId ==
    /\ pm_ret' = PmRet("get_privacy_mode_conn_id", GetCurImplKey, GetPrivacyModeConnId,
                       "Ok", 0, 0)
    /\ UNCHANGED <<PRIVACY_MODE, platform, option_impl, granted>>

-----------------------------------------------------------------------------
(* remove_session_by_session_id in its two holds of SESSIONS *)

\* remove_session_by_session_id, the loop under the first SESSIONS.write():
\* the handler is removed; when the map is left empty the key is kept in
\* remove_peer_key for the second SESSIONS.write(), else the call returns.
RemoveLoop(sid) ==
    /\ remove_call = NoRemove
    /\ IF \E o \in Carriers(sid) : DOMAIN session_handlers[o] = {sid}
       THEN \E o \in Carriers(sid) :
            /\ DOMAIN session_handlers[o] = {sid}
            /\ session_handlers' =
                  [session_handlers EXCEPT ![o] = MapDel(@, sid)]
            /\ remove_call' = [stage |-> "found", sid |-> sid, obj |-> o]
            /\ UNCHANGED <<feature_texture_render, SESSIONS, display_rgbas, peer_multi,
                           next_obj, next_sink, sink_log, spawned, ret>>
       ELSE /\ RemoveSessionBySessionId(sid)
            /\ remove_call' = remove_call

\* remove_session_by_session_id: SESSIONS.write().unwrap().remove(&remove_peer_key?)
RemoveFromRegistry ==
    LET o == remove_call.obj
    IN  /\ remove_call.stage = "found"
        /\ SESSIONS' = [k \in Keys |-> IF SESSIONS[k] = o THEN NoObj ELSE SESSIONS[k]]
        /\ ret' = Ret("remove_session_by_session_id", remove_call.sid, o, "Some",
                      NoObj, NoSink, FALSE, {})
        /\ remove_call' = NoRemove
        /\ UNCHANGED <<feature_texture_render, session_handlers, display_rgbas,
                       peer_multi, next_obj, next_sink, sink_log, spawned>>

-----------------------------------------------------------------------------
(* insert_peer_session_id step by step (texture build) *)

\* insert_peer_session_id up to the statement that sets
\* h.renderer.is_support_multi_ui_session from peer_info.read(); the guard of
\* SESSIONS.read() is held to the end of the call.
InsertReadPeerInfo(peer, sid) ==
    LET o == SESSIONS[<<peer, "DEFAULT_CONN">>]
    IN  /\ feature_texture_render
        /\ insert_call = NoInsert
        /\ IF o # NoObj
           THEN /\ insert_call' = [stage |-> "read", sid |-> sid, obj |-> o,
                                   multi |-> peer_multi[o]]
                /\ UNCHANGED regvars
           ELSE /\ SessionAddExisted(peer, sid)
                /\ insert_call' = insert_call

\* insert_peer_session_id: session_handlers.write().unwrap().insert(session_id, h)
InsertHandler ==
    LET o == insert_call.obj
        h == [DefaultHandler EXCEPT
                 !.renderer.is_support_multi_ui_session = insert_call.multi]
    IN  /\ insert_call.stage = "read"
        /\ session_handlers' =
              [session_handlers EXCEPT ![o] = MapPut(@, insert_call.sid, h)]
        /\ ret' = Ret("session_add_existed", insert_call.sid, o, "ok",
                      NoObj, NoSink, FALSE, {})
        /\ insert_call' = NoInsert
        /\ UNCHANGED <<feature_texture_render, SESSIONS, display_rgbas, peer_multi,
                       next_obj, next_sink, sink_log, spawned>>

-----------------------------------------------------------------------------
(* FlutterHandler::on_rgba of the texture build in its two loops *)

\* on_rgba, first loop under session_handlers.read(): every renderer is given
\* the frame and the ids whose notify_rendered is false are collected; with
\* none collected the call is over.
OnRgbaRead(o, d, size) ==
    LET hs == session_handlers[o]
    IN  /\ on_rgba_call = NoOnRgba
        /\ IF TryNotifySessions(hs) = {}
           THEN /\ OnRgbaTexture(o, d, size)
                /\ on_rgba_call' = on_rgba_call
           ELSE /\ feature_texture_render
                /\ o \in Registered
                /\ spawned[o] > 0
                /\ \E w \in [DOMAIN hs -> Ptrs] :
                      /\ \A sid \in DOMAIN hs :
                            w[sid] \in RendererOnRgba(hs[sid].renderer, d, size)
                      /\ ret' = [Ret("on_rgba", 0, o, "read", NoObj, NoSink, FALSE, {})
                                 EXCEPT !.writes = {<<sid, w[sid]>> :
                                                      sid \in {x \in DOMAIN hs : w[x] # 0}}]
                /\ session_handlers' =
                      [session_handlers EXCEPT ![o] =
                          [sid \in DOMAIN hs |->
                              IF hs[sid].event_stream # NoSink
                              THEN [hs[sid] EXCEPT !.hist.frames = Count2(@)]
                              ELSE hs[sid]]]
                /\ on_rgba_call' = [stage |-> "read", obj |-> o, display |-> d,
                                    try_notify_sessions |-> TryNotifySessions(hs)]
                /\ UNCHANGED <<feature_texture_render, SESSIONS, display_rgbas, peer_multi,
                               next_obj, next_sink, sink_log, spawned, framevars>>

\* on_rgba, second loop under session_handlers.write(): each collected id that
\* is still in the map and has a sink is sent Rgba(display) and marked
OnRgbaWrite ==
    LET o == on_rgba_call.obj
        hs == session_handlers[o]
        ids == {sid \in on_rgba_call.try_notify_sessions \cap DOMAIN hs :
                   hs[sid].event_stream # NoSink}
        told == {hs[sid].event_stream : sid \in ids}
    IN  /\ on_rgba_call.stage = "read"
        /\ \A k \in told : HasRoom(k)
        /\ sink_log' = Broadcast(sink_log, told, RgbaEv(on_rgba_call.display))
        /\ session_handlers' =
              [session_handlers EXCEPT ![o] =
                  [sid \in DOMAIN hs |->
                      IF sid \in ids
                      THEN [hs[sid] EXCEPT !.notify_rendered = TRUE,
                                           !.hist.rgbas = Count2(@)]
                      ELSE hs[sid]]]
        /\ ret' = Ret("on_rgba", 0, o, "ok", NoObj, NoSink, FALSE, {})
        /\ on_rgba_call' = NoOnRgba
        /\ UNCHANGED <<feature_texture_render, SESSIONS, display_rgbas, peer_multi,
                       next_obj, next_sink, spawned, framevars>>

-----------------------------------------------------------------------------
(* Properties of the session registry *)

\* The handlers of every session object, as (object, session id) pairs.
Attachments == {<<o, sid>> \in ObjIds \X SessionIDs : sid \in DOMAIN session_handlers[o]}

\* the number of "close" events in a sink's log
RECURSIVE Closes(_)
Closes(log) ==
    IF log = <<>> THEN 0
    ELSE (IF Head(log) = CloseEv THEN 1 ELSE 0) + Closes(Tail(log))

\* C1: after any sequence of completed session_add, session_add_existed and
\* remove_session_by_session_id calls, a session object is in the registry
\* exactly if its attachment map is not empty.
C1_RegisteredIffAttached ==
    \A o \in ObjIds : (o \in Registered) <=> (DOMAIN session_handlers[o] # {})

\* C1 witness: a detach has just unregistered a session whose last attachment
\* it removed, while another session stays registered with its attachments.
C1_Witness ==
    /\ ret.op = "remove_session_by_session_id"
    /\ ret.res = "Some"
    /\ ret.obj \notin Registered
    /\ \E o \in Registered : Cardinality(DOMAIN session_handlers[o]) = 2

\* C4: when session_start_ replaces a sink, the replaced sink has received
\* exactly one "close" event in all, and that event is the last it received.
C4_OldSinkClosedOnce ==
    (ret.op = "session_start_" /\ ret.old # NoSink) =>
        /\ Closes(sink_log[ret.old]) = 1
        /\ sink_log[ret.old][Len(sink_log[ret.old])] = CloseEv

\* C5: session_start_ with a session id no registered session carries returns
\* the error, installs the sink nowhere, sends no close and spawns no loop.
C5_UnknownIdChangesNothing ==
    [][(ret'.op = "session_start_" /\ Carriers(ret'.sid) = {}) =>
          /\ ret'.res = "No session with peer id"
          /\ ~ret'.spawn
          /\ session_handlers' = session_handlers
          /\ SESSIONS' = SESSIONS
          /\ sink_log' = sink_log
          /\ spawned' = spawned
          /\ \A a \in Attachments :
                session_handlers'[a[1]][a[2]].event_stream # ret'.sink]_vars

\* C5 witness: session_start_ has failed for an unknown id while a session
\* with an installed sink is registered.
C5_Witness ==
    /\ ret.op = "session_start_"
    /\ ret.res = "No session with peer id"
    /\ \E a \in Attachments :
          a[1] \in Registered /\ session_handlers[a[1]][a[2]].event_stream # NoSink

\* C6: no session object has a transport loop spawned for it more than once.
C6_SpawnedAtMostOnce == \A o \in ObjIds : spawned[o] <= 1

\* C7: whenever session_start_ has returned success, a transport loop has been
\* spawned for the session object it acted on.
C7_StartedImpliesSpawned ==
    (ret.op = "session_start_" /\ ret.res = "ok") => spawned[ret.obj] >= 1

\* C21: session_add with a session id that a registered session carries
\* fails and leaves the registry and every attachment map as they were.
C21_DuplicateIdRejected ==
    [][(ret'.op = "session_add" /\ Carriers(ret'.sid) # {}) =>
          /\ ret'.res # "ok"
          /\ ret'.obj = NoObj
          /\ SESSIONS' = SESSIONS
          /\ session_handlers' = session_handlers]_vars

\* C21 witness: session_add was refused for an id that a registered session
\* carries together with another id.
C21_Witness ==
    /\ ret.op = "session_add"
    /\ ret.res = "same session id is found"
    /\ \E o \in Carriers(ret.sid) : Cardinality(DOMAIN session_handlers[o]) = 2

\* C22: when session_add succeeds, the session it returns is registered and
\* carries the new id, and it is the only session that does, so it is the one
\* get_session_by_session_id returns afterwards.
C22_ReturnedSessionIsRegistered ==
    [][\A sid \in SessionIDs :
          (ret'.op = "session_add" /\ ret'.res = "ok" /\ ret'.sid = sid) =>
            /\ ret'.obj \in Registered'
            /\ sid \in DOMAIN session_handlers'[ret'.obj]
            /\ Carriers(sid)' = {ret'.obj}]_vars

\* C23: insert_peer_session_id (through session_add_existed) returns false
\* and changes nothing when no session is registered under (peer,
\* DEFAULT_CONN); otherwise it returns true, the attachment map of that
\* session contains the id afterwards, and the registry and the other
\* sessions are as they were.
C23_AttachOnlyToRegistered ==
    [][\A peer \in Peers, sid \in SessionIDs :
          (ret'.op = "session_add_existed" /\ ret'.sid = sid
              /\ SessionAddExisted(peer, sid)) =>
            LET o == SESSIONS[<<peer, "DEFAULT_CONN">>]
            IN  /\ SESSIONS' = SESSIONS
                /\ ret'.obj = o
                /\ IF o = NoObj
                   THEN session_handlers' = session_handlers
                   ELSE /\ sid \in DOMAIN session_handlers'[o]
                        /\ \A x \in ObjIds \ {o} :
                              session_handlers'[x] = session_handlers[x]
                        /\ \A other \in (DOMAIN session_handlers[o]) \ {sid} :
                              /\ other \in DOMAIN session_handlers'[o]
                              /\ session_handlers'[o][other] = session_handlers[o][other]]_vars

\* C23 witness: an id was attached to a registered session that carried
\* another id already, while another session is registered too.
C23_Witness ==
    /\ ret.op = "session_add_existed"
    /\ ret.obj # NoObj
    /\ ret.obj \in Registered
    /\ DOMAIN session_handlers[ret.obj] = SessionIDs
    /\ Cardinality(Registered) = 2

\* C38: every attachment id is carried by at most one registered session.
C38_IdCarriedByOneSession ==
    \A sid \in SessionIDs : Cardinality(Carriers(sid)) <= 1

\* sink k is installed on some attachment
Installed(hs, k) ==
    \E o \in ObjIds : \E sid \in DOMAIN hs[o] : hs[o][sid].event_stream = k

\* C39: a sink that stops being installed on an attachment has received a
\* "close" event by then, whichever call discards it.
C39_DiscardedSinkWasClosed ==
    [][\A k \in SinkIds :
          (Installed(session_handlers, k) /\ ~Installed(session_handlers', k)) =>
             Closes(sink_log'[k]) >= 1]_vars

\* C35: a sink that has received "close" receives nothing from a later
\* push_event or on_rgba of the session.
C35_ClosedSinkReceivesNothing ==
    [][\A k \in SinkIds :
          (ret'.op \in {"push_session_event", "on_rgba"} /\ Closes(sink_log[k]) >= 1) =>
             sink_log'[k] = sink_log[k]]_vars

\* C36: once a detach has completed, a session that has an attachment is in
\* the registry, also when an attach ran while the detach was under way.
C36_AttachedSessionStaysRegistered ==
    [][(/\ remove_call.stage = "found"
        /\ remove_call' = NoRemove
        /\ ret.op = "session_add_existed"
        /\ ret.obj = remove_call.obj
        /\ ret.sid \in DOMAIN session_handlers[remove_call.obj]) =>
           remove_call.obj \in Registered']_vars

-----------------------------------------------------------------------------
(* Properties of the frame delivery *)

\* C3: owned-buffer build: after one or more on_rgba calls for a display
\* with no next_rgba in between, starting from a display without a pending
\* frame, the slot of the display holds the first of those frames.
C3_SlotHoldsFirstFrame ==
    \A o \in ObjIds, d \in RgbaDisplays :
        since_next[o][d].n >= 1 =>
            /\ d \in DOMAIN display_rgbas[o]
            /\ display_rgbas[o][d].data = since_next[o][d].first

\* whether a sink's log holds an Rgba event
HasRgba(log) == \E i \in 1..Len(log) : log[i].t = "Rgba"

\* C8: external-target build: over the on_rgba calls since notify_rendered of
\* an attachment was last cleared (or the attachment was created), the
\* attachment is sent at most one Rgba event, and exactly one once a frame has
\* arrived while its sink was installed.
C8_OneRgbaPerArming ==
    \A a \in Attachments :
        LET h == session_handlers[a[1]][a[2]]
        IN  /\ h.hist.rgbas <= 1
            /\ (h.hist.frames >= 1 => h.hist.rgbas = 1)
            /\ (h.notify_rendered <=> h.hist.rgbas = 1)

\* C8 witness: two or more frames have been delivered to an attachment with a
\* sink, which was sent one Rgba event.
C8_Witness ==
    /\ feature_texture_render
    /\ ret.op = "on_rgba"
    /\ \E a \in Attachments :
          LET h == session_handlers[a[1]][a[2]]
          IN  /\ a[1] = ret.obj
              /\ h.event_stream # NoSink
              /\ h.hist.frames = 2
              /\ h.hist.rgbas = 1
              /\ sink_log[h.event_stream] = <<RgbaEv(0)>>

\* C9: external-target build: a completed session_set_size clears
\* notify_rendered of the attachment it resizes and leaves every other
\* attachment and every sink untouched; an on_rgba call then sends one Rgba
\* event to each attachment with a sink whose flag is clear, sets its flag, and
\* sends none to the attachments whose flag is still set.
C9_SetSizeRearmsOnce ==
    [][/\ (ret'.op = "session_set_size" /\ ret'.obj # NoObj) =>
            /\ ~session_handlers'[ret'.obj][ret'.sid].notify_rendered
            /\ \A a \in Attachments \ {<<ret'.obj, ret'.sid>>} :
                  session_handlers'[a[1]][a[2]] = session_handlers[a[1]][a[2]]
            /\ sink_log' = sink_log
       /\ (ret'.op = "on_rgba") =>
            \A sid \in DOMAIN session_handlers[ret'.obj] :
                LET h == session_handlers[ret'.obj][sid]
                    k == h.event_stream
                IN  k # NoSink =>
                      /\ session_handlers'[ret'.obj][sid].notify_rendered
                      /\ IF h.notify_rendered
                         THEN sink_log'[k] = sink_log[k]
                         ELSE \E d \in TexDisplays :
                                 sink_log'[k] = Append(sink_log[k], RgbaEv(d))]_vars

\* C9 witness: session_set_size has just cleared the flag of an attachment
\* that had been notified, while another attachment of the same session is
\* still marked notified.
C9_Witness ==
    /\ ret.op = "session_set_size"
    /\ ret.obj # NoObj
    /\ LET h == session_handlers[ret.obj][ret.sid]
       IN  /\ ~h.notify_rendered
           /\ h.event_stream # NoSink
           /\ HasRgba(sink_log[h.event_stream])
    /\ \E sid \in DOMAIN session_handlers[ret.obj] \ {ret.sid} :
          /\ session_handlers[ret.obj][sid].notify_rendered
          /\ session_handlers[ret.obj][sid].event_stream # NoSink

\* C10: external-target build: session_register_texture, and session_start_
\* with a new sink, clear notify_rendered of an attachment that had been
\* notified.
C10_ReRegisterRearms ==
    [][(/\ \/ (ret'.op = "session_register_texture" /\ ret'.obj # NoObj)
           \/ (ret'.op = "session_start_" /\ ret'.res = "ok")
        /\ ret'.sid \in DOMAIN session_handlers[ret'.obj]
        /\ session_handlers[ret'.obj][ret'.sid].notify_rendered)
       => ~session_handlers'[ret'.obj][ret'.sid].notify_rendered]_vars

\* C26: between a get_rgba(d) that returned a non-null pointer to a consumer
\* and the next_rgba(d) of that consumer, no on_rgba changes the buffer of
\* display d, whatever the number of attachments reading the slot.
C26_BufferKeptWhileRead ==
    [][\A o \in ObjIds, d \in RgbaDisplays :
          (ret'.op = "on_rgba" /\ ret'.obj = o
              /\ d \in DOMAIN display_rgbas[o]
              /\ since_next[o][d].readers # {}) =>
            display_rgbas'[o][d].data = display_rgbas[o][d].data]_vars

\* C27: an on_rgba(d, frame) that finds the slot of display d consumed (not
\* valid, as next_rgba leaves it) is accepted: the frame's buffer is in the
\* slot, the producer has the slot's previous buffer, the slot is valid and
\* get_rgba(d) returns a non-null pointer to that frame.
C27_FrameAfterNextAccepted ==
    [][\A o \in ObjIds, d \in RgbaDisplays, f \in Frames :
          (ret'.op = "on_rgba" /\ ret'.obj = o
              /\ d \in DOMAIN display_rgbas[o]
              /\ ~display_rgbas[o][d].valid
              /\ OnRgba(o, d, f)) =>
            /\ display_rgbas'[o][d] = [data |-> f, valid |-> TRUE]
            /\ ret'.val = display_rgbas[o][d].data
            /\ GetRgbaNonNull(o, d)'
            /\ GetRgba(o, d)' = f]_vars

\* C27 witness: the first on_rgba after a next_rgba was accepted: the slot is
\* valid with the frame, and the producer got back the buffer of an earlier
\* frame.
C27_Witness ==
    /\ ret.op = "on_rgba"
    /\ ret.res = "notified"
    /\ ret.val # 0
    /\ \E d \in RgbaDisplays :
          /\ d \in DOMAIN display_rgbas[ret.obj]
          /\ display_rgbas[ret.obj][d].valid
          /\ display_rgbas[ret.obj][d].data # ret.val
          /\ since_next[ret.obj][d].n = 1

\* C32: when on_rgba sends Rgba(d) to the sinks, the slot of display d is
\* valid after the call: get_rgba(d) returns a non-null pointer until the
\* next next_rgba(d).
C32_NotifiedSlotIsValid ==
    [][\A o \in ObjIds, d \in RgbaDisplays :
          (ret'.op = "on_rgba" /\ ret'.obj = o /\ ret'.res = "notified"
              /\ SinksOf(o) # {}
              /\ \E f \in Frames : OnRgba(o, d, f)) =>
            GetRgbaNonNull(o, d)']_vars

\* C34: on_rgba(d, frame) sends one Rgba(d) to every installed sink of the
\* session when the frame is taken into the slot (the slot holds no pending
\* frame), and nothing to any sink when the frame is dropped because the slot
\* is still valid.
C34_RgbaSentIffFrameAccepted ==
    [][\A o \in ObjIds, d \in RgbaDisplays, f \in Frames :
          (ret'.op = "on_rgba" /\ ret'.obj = o /\ OnRgba(o, d, f)) =>
             IF d \in DOMAIN display_rgbas[o] /\ display_rgbas[o][d].valid
             THEN /\ sink_log' = sink_log
                  /\ display_rgbas' = display_rgbas
             ELSE /\ display_rgbas'[o][d].data = f
                  /\ \A k \in SinkIds :
                        sink_log'[k] = IF k \in SinksOf(o)
                                       THEN Append(sink_log[k], RgbaEv(d))
                                       ELSE sink_log[k]]_vars

\* C34 witness: a frame was dropped on a valid slot after two frames were
\* accepted: the sink installed before them holds their two Rgba events, the
\* sink installed between them holds one, and the dropped frame added none.
C34_Witness ==
    /\ ret.op = "on_rgba"
    /\ ret.res = "dropped"
    /\ Cardinality(SinksOf(ret.obj)) = 2
    /\ \E k \in SinksOf(ret.obj) : sink_log[k] = <<RgbaEv(0), RgbaEv(0)>>
    /\ \E k \in SinksOf(ret.obj) : sink_log[k] = <<RgbaEv(0)>>

-----------------------------------------------------------------------------
(* Properties of the renderers (external-target build) *)

\* the slot map of the renderer of attachment sid of session object o
SlotsOf(hs, o, sid) == hs[o][sid].renderer.map_display_sessions

\* slot maps m and n agree on every display but d
SameSlotsBut(m, n, d) ==
    /\ (DOMAIN m) \ {d} = (DOMAIN n) \ {d}
    /\ \A x \in (DOMAIN m) \ {d} : n[x] = m[x]

\* C11: VideoRenderer::on_rgba invokes the external write callback for an
\* attachment only if the callback was resolved and the slot it selects exists,
\* has a handle other than 0 (the one written to) and the size of the frame;
\* the call changes no renderer and returns normally.
C11_NoWriteUnlessReady ==
    [][\A o \in ObjIds, d \in Displays, size \in Sizes :
          (ret'.op = "on_rgba" /\ ret'.obj = o /\ OnRgbaTexture(o, d, size)) =>
            /\ ret'.res = "ok"
            /\ \A sid \in DOMAIN session_handlers[o] :
                  LET r == session_handlers[o][sid].renderer
                      m == r.map_display_sessions
                  IN  /\ session_handlers'[o][sid].renderer = r
                      /\ \A p \in Ptrs :
                            <<sid, p>> \in ret'.writes =>
                              /\ plugin_resolved
                              /\ p # 0
                              /\ \E x \in DOMAIN m :
                                    /\ r.is_support_multi_ui_session => x = d
                                    /\ m[x].texture_rgba_ptr = p
                                    /\ m[x].size = size]_vars

\* C11 witness: a frame was delivered to an attachment whose only slot has a
\* registered handle, the callback being resolved, and nothing was written:
\* the frame's size differs from the slot's.
C11_Witness ==
    /\ feature_texture_render
    /\ plugin_resolved
    /\ ret.op = "on_rgba"
    /\ ret.writes = {}
    /\ \E sid \in DOMAIN session_handlers[ret.obj] :
          /\ DOMAIN SlotsOf(session_handlers, ret.obj, sid) = {0}
          /\ SlotsOf(session_handlers, ret.obj, sid)[0].texture_rgba_ptr # 0
          /\ SlotsOf(session_handlers, ret.obj, sid)[0].size # 0

\* C12: for an attachment that supports multi-display addressing, with the
\* callback resolved: register_texture(d, p), p # 0, leaves slot d with handle
\* p and the size it had; set_size(d, size) leaves slot d with that size and
\* the handle it had; both leave the other slots alone, and no other call
\* changes a slot of a handler that stays (session_add_existed replaces it);
\* and on_rgba(d, frame) with a frame of the slot's size invokes the callback
\* for the attachment exactly once, with the slot's handle.
C12_ExactSizeFrameWritten ==
    [][/\ \A sid \in SessionIDs, d \in Displays, ptr \in Ptrs :
            (/\ ret'.op = "session_register_texture"
             /\ ret'.sid = sid
             /\ ret'.obj # NoObj
             /\ SessionRegisterTexture(sid, d, ptr)) =>
                LET m == SlotsOf(session_handlers, ret'.obj, sid)
                    n == SlotsOf(session_handlers', ret'.obj, sid)
                IN  /\ SameSlotsBut(m, n, d)
                    /\ ptr # 0 =>
                         /\ d \in DOMAIN n
                         /\ n[d].texture_rgba_ptr = ptr
                         /\ n[d].size = IF d \in DOMAIN m THEN m[d].size ELSE 0
       /\ \A sid \in SessionIDs, d \in Displays, size \in Sizes :
            (/\ ret'.op = "session_set_size"
             /\ ret'.sid = sid
             /\ ret'.obj # NoObj
             /\ SessionSetSize(sid, d, size)) =>
                LET m == SlotsOf(session_handlers, ret'.obj, sid)
                    n == SlotsOf(session_handlers', ret'.obj, sid)
                IN  /\ SameSlotsBut(m, n, d)
                    /\ d \in DOMAIN n
                    /\ n[d].size = size
                    /\ n[d].texture_rgba_ptr =
                          IF d \in DOMAIN m THEN m[d].texture_rgba_ptr ELSE 0
       /\ \A a \in Attachments :
            (/\ a[2] \in DOMAIN session_handlers'[a[1]]
             /\ SlotsOf(session_handlers', a[1], a[2]) # SlotsOf(session_handlers, a[1], a[2]))
            => /\ ret'.sid = a[2]
               /\ ret'.op \in {"session_set_size", "session_register_texture",
                               "session_add_existed"}
       /\ \A o \in ObjIds, d \in Displays, size \in Sizes :
            (ret'.op = "on_rgba" /\ ret'.obj = o /\ OnRgbaTexture(o, d, size)) =>
              \A sid \in DOMAIN session_handlers[o] :
                  LET r == session_handlers[o][sid].renderer
                      m == r.map_display_sessions
                  IN  (/\ plugin_resolved
                       /\ r.is_support_multi_ui_session
                       /\ d \in DOMAIN m
                       /\ m[d].texture_rgba_ptr # 0
                       /\ m[d].size = size)
                      => {w \in ret'.writes : w[1] = sid} = {<<sid, m[d].texture_rgba_ptr>>}]_vars

\* C12 witness: a frame for display 1 was written to the handle of slot 1 of
\* an attachment that supports multi-display addressing and has no other slot.
C12_Witness ==
    /\ feature_texture_render
    /\ plugin_resolved
    /\ ret.op = "on_rgba"
    /\ \E sid \in DOMAIN session_handlers[ret.obj] :
          /\ session_handlers[ret.obj][sid].renderer.is_support_multi_ui_session
          /\ DOMAIN SlotsOf(session_handlers, ret.obj, sid) = {1}
          /\ SlotsOf(session_handlers, ret.obj, sid)[1].size = MaxSize
          /\ <<sid, SlotsOf(session_handlers, ret.obj, sid)[1].texture_rgba_ptr>> \in ret.writes

\* C18: external-target build: when remove_session_by_session_id removes an
\* attachment and others remain, the displays of the capture_displays command
\* are exactly the displays of the slot maps of the surviving attachments; a
\* display only the removed attachment had is not among them.
C18_CaptureSurvivingDisplays ==
    [][\A sid \in SessionIDs :
          (/\ ret'.op = "remove_session_by_session_id"
           /\ ret'.sid = sid
           /\ feature_texture_render
           /\ ret'.obj # NoObj
           /\ ret'.res = "None") =>
             LET o == ret'.obj
                 used == UNION {DOMAIN SlotsOf(session_handlers', o, k) :
                                  k \in DOMAIN session_handlers'[o]}
             IN  /\ DOMAIN session_handlers'[o] = DOMAIN session_handlers[o] \ {sid}
                 /\ ret'.capture = used
                 /\ \A d \in DOMAIN SlotsOf(session_handlers, o, sid) :
                       d \notin used => d \notin ret'.capture]_vars

\* C18 witness: a detach left an attachment whose slots are for display 1
\* only, one of them without a registered texture, and the command lists
\* display 1 alone.
C18_Witness ==
    /\ feature_texture_render
    /\ ret.op = "remove_session_by_session_id"
    /\ ret.obj # NoObj
    /\ ret.res = "None"
    /\ ret.capture = {1}
    /\ \E k \in DOMAIN session_handlers[ret.obj] :
          /\ DOMAIN SlotsOf(session_handlers, ret.obj, k) = {1}
          /\ SlotsOf(session_handlers, ret.obj, k)[1].texture_rgba_ptr = 0

\* C33: an on_rgba call that sets the notified flag of an attachment (and
\* sends it the Rgba event) has written the frame to a texture of that
\* attachment.
C33_NotifiedOnlyWhenWritten ==
    [][\A o \in ObjIds, sid \in SessionIDs :
          (/\ ret'.op = "on_rgba"
           /\ ret'.obj = o
           /\ feature_texture_render
           /\ sid \in DOMAIN session_handlers[o]
           /\ ~session_handlers[o][sid].notify_rendered
           /\ session_handlers'[o][sid].notify_rendered) =>
             \E w \in ret'.writes : w[1] = sid]_vars

\* C37: when an attach completes, its handler's is_support_multi_ui_session is
\* the value of the session's latest peer info, also when set_peer_info ran
\* while the attach was under way.
C37_AttachedFlagFollowsPeerInfo ==
    [][(insert_call.stage = "read" /\ insert_call' = NoInsert) =>
          session_handlers'[insert_call.obj][insert_call.sid]
              .renderer.is_support_multi_ui_session = peer_multi'[insert_call.obj]]_vars

\* C40: a session_set_size that ran between the two loops of on_rgba leaves
\* the attachment un-notified when on_rgba returns, so that a later frame
\* sends it the frame-ready event.
C40_SetSizeRearmsDuringOnRgba ==
    [][\A sid \in SessionIDs :
          (/\ on_rgba_call.stage = "read"
           /\ on_rgba_call' = NoOnRgba
           /\ ret.op = "session_set_size"
           /\ ret.sid = sid
           /\ ret.obj = on_rgba_call.obj) =>
              ~session_handlers'[on_rgba_call.obj][sid].notify_rendered]_vars

-----------------------------------------------------------------------------
(* Properties of the privacy mode arbiter *)

\* C2: while the connection whose turn_on_privacy succeeded has not released
\* privacy mode, turn_on_privacy for any other connection (not 0) returns
\* OCCUPIED and leaves the owner and the active implementation as they were.
C2_OccupiedWhileGranted ==
    [][(/\ pm_ret'.op = "turn_on_privacy"
        /\ granted # 0
        /\ pm_ret'.conn_id \notin {0, granted})
       => (pm_ret'.res = "OCCUPIED" /\ PRIVACY_MODE' = PRIVACY_MODE)]_vars

\* the connection conn_id (not 0) owns privacy mode under the active instance
OwnedBy(conn_id) ==
    /\ PRIVACY_MODE.some
    /\ conn_id # INVALID_PRIVACY_MODE_CONN_ID
    /\ PRIVACY_MODE.conn_id = conn_id

\* C13: turn_on_privacy(impl2, A) called while A owns privacy mode under
\* another implementation, impl2 being supported, ends with impl2 active and A
\* the owner, after exactly one clear() and exactly one construction.
C13_SwapKeepsOwner ==
    [][(/\ pm_ret'.op = "turn_on_privacy"
        /\ OwnedBy(pm_ret'.conn_id)
        /\ pm_ret'.impl_key \in SupportedImpls
        /\ pm_ret'.impl_key # PRIVACY_MODE.impl_key)
       => (/\ GetCurImplKey' = pm_ret'.impl_key
           /\ GetPrivacyModeConnId' = pm_ret'.conn_id
           /\ pm_ret'.clears = 1
           /\ pm_ret'.news = 1)]_vars

\* C13, the part that holds: the same call performs exactly one clear() and
\* one construction and ends with impl2 active; A is the owner afterwards if
\* and only if the turn_on_privacy of the new instance succeeded.
C13_SwapOwnerIffTurnedOn ==
    [][(/\ pm_ret'.op = "turn_on_privacy"
        /\ OwnedBy(pm_ret'.conn_id)
        /\ pm_ret'.impl_key \in SupportedImpls
        /\ pm_ret'.impl_key # PRIVACY_MODE.impl_key)
       => (/\ GetCurImplKey' = pm_ret'.impl_key
           /\ pm_ret'.clears = 1
           /\ pm_ret'.news = 1
           /\ pm_ret'.res \in {"Ok", "Err(impl)"}
           /\ GetPrivacyModeConnId' =
                 IF pm_ret'.res = "Ok" THEN pm_ret'.conn_id
                 ELSE INVALID_PRIVACY_MODE_CONN_ID)]_vars

\* C14: turn_on_privacy(impl, A) called while A owns privacy mode under impl
\* returns Ok(true) from the ownership check (the implementation's
\* turn_on_privacy is not called), performs no clear() and no construction,
\* and leaves the instance, hence owner and implementation, as they were.
C14_SameOwnerSameImplIdempotent ==
    [][(/\ pm_ret'.op = "turn_on_privacy"
        /\ OwnedBy(pm_ret'.conn_id)
        /\ pm_ret'.impl_key = PRIVACY_MODE.impl_key)
       => (/\ pm_ret'.res = "Ok(true)"
           /\ pm_ret'.clears = 0
           /\ pm_ret'.news = 0
           /\ PRIVACY_MODE' = PRIVACY_MODE)]_vars

\* C14 witness: the owner asked again for the implementation it owns.
C14_Witness ==
    /\ pm_ret.op = "turn_on_privacy"
    /\ pm_ret.res = "Ok(true)"
    /\ OwnedBy(pm_ret.conn_id)
    /\ pm_ret.impl_key = PRIVACY_MODE.impl_key
    /\ granted = pm_ret.conn_id

\* C15: switch(new_impl), new_impl supported and not the current one, makes
\* new_impl the active implementation and leaves what
\* get_privacy_mode_conn_id and is_in_privacy_mode report as it was.
C15_SwitchKeepsOwner ==
    [][(/\ pm_ret'.op = "switch"
        /\ pm_ret'.impl_key \in SupportedImpls
        /\ pm_ret'.impl_key # GetCurImplKey)
       => (/\ GetCurImplKey' = pm_ret'.impl_key
           /\ GetPrivacyModeConnId' = GetPrivacyModeConnId
           /\ IsInPrivacyMode' = IsInPrivacyMode)]_vars

\* C16: whenever turn_on_privacy or switch constructs a new instance in place
\* of an active one, the old instance was unowned or clear() was called on it
\* during the same call.
C16_ReplacedOnlyUnownedOrCleared ==
    [][(/\ pm_ret'.op \in {"turn_on_privacy", "switch"}
        /\ pm_ret'.news = 1
        /\ PRIVACY_MODE.some)
       => (\/ PRIVACY_MODE.conn_id = INVALID_PRIVACY_MODE_CONN_ID
           \/ pm_ret'.clears = 1)]_vars

\* C17: turn_off_privacy on an active instance is rejected with
\* TURN_OFF_OTHER_ID exactly when the owner is not 0, the caller is not 0 and
\* they differ, and is permitted otherwise; a rejected release leaves the
\* instance, hence the owner, as it was.
C17_ReleaseRejectedIffOtherOwner ==
    [][(pm_ret'.op = "turn_off_privacy" /\ PRIVACY_MODE.some)
       => (/\ pm_ret'.res \in {"TURN_OFF_OTHER_ID", "Ok"}
           /\ (pm_ret'.res = "TURN_OFF_OTHER_ID") <=>
                 (/\ PRIVACY_MODE.conn_id # INVALID_PRIVACY_MODE_CONN_ID
                  /\ pm_ret'.conn_id # INVALID_PRIVACY_MODE_CONN_ID
                  /\ PRIVACY_MODE.conn_id # pm_ret'.conn_id)
           /\ (pm_ret'.res = "TURN_OFF_OTHER_ID" => PRIVACY_MODE' = PRIVACY_MODE))]_vars

\* C17 witness: a release by a connection other than the owner was rejected
\* and the owner is still the owner.
C17_Witness ==
    /\ pm_ret.op = "turn_off_privacy"
    /\ pm_ret.res = "TURN_OFF_OTHER_ID"
    /\ pm_ret.conn_id # INVALID_PRIVACY_MODE_CONN_ID
    /\ PRIVACY_MODE.some
    /\ PRIVACY_MODE.conn_id \notin {INVALID_PRIVACY_MODE_CONN_ID, pm_ret.conn_id}
    /\ granted = PRIVACY_MODE.conn_id

\* C30: turn_on_privacy with a requested key that is not supported works with
\* the configured key if that one is supported, else with
\* DEFAULT_PRIVACY_MODE_IMPL: the implementation it turns on is that one; and
\* when that key is not the active one and has no creator, the call returns
\* Unsupported, and the instance and its owner are as before, nothing
\* cleared, nothing created.
C30_UnsupportedKeyFallsBack ==
    [][(pm_ret'.op = "turn_on_privacy" /\ pm_ret'.impl_key \notin SupportedImpls) =>
          LET key == IF option_impl \in SupportedImpls THEN option_impl
                     ELSE DEFAULT_PRIVACY_MODE_IMPL
              active == IF PRIVACY_MODE.some THEN PRIVACY_MODE.impl_key ELSE ""
          IN  /\ pm_ret'.res \in {"Ok", "Err(impl)", "Ok(true)"} =>
                    (PRIVACY_MODE'.some /\ PRIVACY_MODE'.impl_key = key)
              /\ (key # active /\ key \notin Creators) =>
                    /\ pm_ret'.res = "Unsupported"
                    /\ PRIVACY_MODE' = PRIVACY_MODE
                    /\ granted' = granted
                    /\ pm_ret'.clears = 0
                    /\ pm_ret'.news = 0]_vars

\* an unsupported request was rejected while an implementation is active
C30_Witness ==
    /\ pm_ret.op = "turn_on_privacy"
    /\ pm_ret.impl_key \notin SupportedImpls
    /\ pm_ret.res = "Unsupported"
    /\ PRIVACY_MODE.some

\* an unsupported request has turned on the configured implementation, which
\* is not the default one
C30_WitnessConfigured ==
    /\ pm_ret.op = "turn_on_privacy"
    /\ pm_ret.impl_key \notin SupportedImpls
    /\ pm_ret.res = "Ok"
    /\ PRIVACY_MODE.impl_key = option_impl
    /\ option_impl # DEFAULT_PRIVACY_MODE_IMPL
    /\ PRIVACY_MODE.conn_id = pm_ret.conn_id

\* C31: turn_on_privacy checks, clears, constructs and turns on within one
\* hold of PRIVACY_MODE's lock: no switch, turn_off_privacy, clear, query or
\* other turn_on_privacy acts while a call is between its steps.
C31_NoCallerInsideTurnOn ==
    [][/\ (pm_ret' # pm_ret /\ pm_ret'.op # "set_option") =>
              \/ turn_on_call.stage = "none"
              \/ (pm_ret'.op = "turn_on_privacy" /\ turn_on_call'.stage = "none")
       /\ (turn_on_call' # turn_on_call /\ turn_on_call'.stage = "checked") =>
              turn_on_call.stage = "none"]_vars

\* C31 witness: a call is between clear() and the construction: the owner it
\* found has been forced off, the old implementation is still installed.
C31_Witness ==
    /\ turn_on_call.stage = "cleared"
    /\ granted # 0
    /\ granted = turn_on_call.conn_id
    /\ PRIVACY_MODE.some
    /\ PRIVACY_MODE.conn_id = INVALID_PRIVACY_MODE_CONN_ID
    /\ PRIVACY_MODE.impl_key # turn_on_call.impl_key

-----------------------------------------------------------------------------
(* Properties of the event fan-out *)

\* the names of the events pushed to the sessions
PushNames == {"msgbox", "update_quality_status"}

\* C19: a push_session_event call appends its event, once and at the end, to
\* the log of every sink installed in an attachment of the session, and to no
\* other sink; so each sink has received, in the order of the calls, exactly
\* the events pushed while it was installed.
C19_PushReachesEverySinkInOrder ==
    [][\A sid \in SessionIDs, name \in PushNames :
          (ret'.op = "push_session_event" /\ ret'.sid = sid /\ ret'.obj # NoObj
              /\ PushSessionEvent(sid, name)) =>
            \A k \in SinkIds :
               sink_log'[k] = IF k \in SinksOf(ret'.obj)
                              THEN Append(sink_log[k], EventEv(name, TRUE))
                              ELSE sink_log[k]]_vars

\* C19 witness: two attachments of one session have a sink each, and both
\* sinks have received the same two different events in the order of the
\* calls.
C19_Witness ==
    /\ ret.op = "push_session_event"
    /\ ret.obj # NoObj
    /\ \E k \in SinksOf(ret.obj), j \in SinksOf(ret.obj) :
          /\ k # j
          /\ sink_log[k] = <<EventEv("msgbox", TRUE), EventEv("update_quality_status", TRUE)>>
          /\ sink_log[j] = sink_log[k]

-----------------------------------------------------------------------------
(* Properties of the global event streams *)

\* the sink most recently started under the name c, unless stop was called
\* for c since (0 = none)
StartedSink(c) ==
    LET S == {s \in DOMAIN global_sinks : global_sinks[s].app_type = c}
    IN  IF S = {} THEN 0
        ELSE LET m == CHOOSE s \in S : \A t \in S : t <= s
             IN  IF global_sinks[m].stopped THEN 0 ELSE m

\* what push_global_event(c, event) has to do by the start and stop calls
\* made so far
PushAsStarted ==
    LET c == global_ret'.app_type
        s == StartedSink(c)
    IN  /\ s # 0 =>
              /\ global_ret'.res = "Some(true)"
              /\ global_sinks'[s].log = Append(global_sinks[s].log, global_ret'.event)
        /\ \A t \in DOMAIN global_sinks :
              global_sinks[t].stopped => global_sinks'[t].log = global_sinks[t].log
        /\ (s = 0 /\ \E t \in DOMAIN global_sinks : global_sinks[t].app_type = c) =>
              /\ global_ret'.res = "None"
              /\ GLOBAL_EVENT_STREAM' = GLOBAL_EVENT_STREAM

\* C20: for any channel name c, push_global_event(c, payload) delivers the
\* payload to the sink started under c while c has not been stopped; once c
\* is stopped the sinks started under c receive nothing more, and
\* push_global_event(c, _) returns None and leaves the registry as it was.
C20_GlobalStartPushStop ==
    [][global_ret'.op = "push_global_event" => PushAsStarted]_vars

\* C20, the part that holds: the same, as long as every name streams were
\* started under is free of commas.
C20_PlainNamesStartPushStop ==
    [][(/\ global_ret'.op = "push_global_event"
        /\ \A t \in DOMAIN global_sinks : Len(global_sinks[t].app_type) = 1)
       => PushAsStarted]_vars

-----------------------------------------------------------------------------
(* Properties of the texture registration *)

\* the attachments of session object o that hold a non-zero texture handle
\* for display d
HoldersOf(o, d) ==
    {sid \in DOMAIN session_handlers[o] :
        /\ d \in DOMAIN SlotsOf(session_handlers, o, sid)
        /\ SlotsOf(session_handlers, o, sid)[d].texture_rgba_ptr # 0}

\* C29: for each display of a connection at most one attachment holds a
\* registered non-zero texture handle.
C29_OneHolderPerDisplay ==
    \A o \in Registered : \A d \in Displays :
        Cardinality(HoldersOf(o, d)) <= 1

-----------------------------------------------------------------------------
(* Properties of the locking *)

\* C24: no operation acquires the attachment map lock (session_handlers)
\* while it holds the registry lock (SESSIONS).
C24_RegistryReleasedBeforeHandlers ==
    \A t \in Threads :
        LET prog == LockProgram(thread_pc[t].op)
            i == thread_pc[t].i
        IN  (i > 0 /\ prog[i].a = "acq" /\ prog[i].l = "session_handlers") =>
               \A h \in Held(t) : h[1] # "SESSIONS"

\* C25: under fair scheduling every started operation eventually completes,
\* whatever the other threads run.
C25_EveryOperationCompletes ==
    \A t \in Threads : (thread_pc[t] # Idle) ~> (thread_pc[t] = Idle)

\* one thread holds the handlers for writing, another one waits for them
\* with the registry in its hands
C25_Witness ==
    \E t, u \in Threads :
        /\ t # u
        /\ <<"session_handlers", "w">> \in Held(t)
        /\ Blocked(u)
        /\ \E h \in Held(u) : h[1] = "SESSIONS"

-----------------------------------------------------------------------------
(* Properties of the connection rounds *)

\* C28: the loops spawned by session_start_ for one connection hold strictly
\* increasing rounds in the order of their spawns, and when two of them have
\* their round, the later spawned one holds the current round of the
\* connection.
C28_LaterLoopHoldsCurrentRound ==
    \A o \in ObjIds : \A i, j \in LoopIds :
        LET st == connection_round_state[o]
        IN  (i < j /\ st.loops[i] # 0 /\ st.loops[j] # 0) =>
               /\ st.loops[i] < st.loops[j]
               /\ st.loops[j] = st.round

-----------------------------------------------------------------------------
(* Specification of the session lifecycle and the event fan-out *)

EventNames == {"msgbox"}


\* The peers sessions are added for; session_add_existed is also tried on the
\* other peer, which has no session.
AddPeers == {"peerA"}

\* The arbiter as it starts on a machine that supports nothing.
IdlePrivacy ==
    /\ platform = [windows |-> FALSE, vd_feature |-> FALSE, excl |-> FALSE,
                   mag |-> FALSE, vd |-> FALSE]
    /\ option_impl = ""
    /\ PRIVACY_MODE = NoImpl
    /\ granted = 0
    /\ pm_ret = PmRet("init", "", 0, "Ok", 0, 0)

Init ==
    /\ feature_texture_render \in BOOLEAN
    /\ InitRegistry
    /\ InitFrames({TRUE})
    /\ IdlePrivacy
    /\ InitGlobal
    /\ InitRounds
    /\ InitThreads
    /\ InitSteps

AddStep ==
    \E sid \in SessionIDs, peer \in AddPeers, ft \in BOOLEAN :
       SessionAdd(sid, peer, ft, FALSE, FALSE) /\ UNCHANGED <<framevars, pmvars, globalvars, threadvars, stepvars>>
AddExistedStep ==
    \E sid \in SessionIDs, peer \in Peers :
       SessionAddExisted(peer, sid) /\ UNCHANGED <<framevars, pmvars, globalvars, threadvars, stepvars>>
StartStep == \E sid \in SessionIDs : SessionStart(sid) /\ UNCHANGED <<framevars, pmvars, globalvars, threadvars, stepvars>>
RemoveStep == \E sid \in SessionIDs : RemoveSessionBySessionId(sid) /\ UNCHANGED <<framevars, pmvars, globalvars, threadvars, stepvars>>
CloseStep ==
    \E sid \in SessionIDs, o \in ObjIds : CloseEventStream(o, sid) /\ UNCHANGED <<framevars, pmvars, globalvars, threadvars, stepvars>>
PushStep ==
    \E sid \in SessionIDs, name \in EventNames :
       PushSessionEvent(sid, name) /\ UNCHANGED <<framevars, pmvars, globalvars, threadvars, stepvars>>

\* The session registry: add, attach, start, detach.
Next == AddStep \/ AddExistedStep \/ StartStep \/ RemoveStep

Spec == Init /\ [][Next]_vars

\* The registry together with the event fan-out.
NextEvents == Next \/ CloseStep \/ PushStep

SpecEvents == Init /\ [][NextEvents]_vars

\* The owned-buffer build: the registry together with frame delivery.
InitRgba ==
    /\ feature_texture_render = FALSE
    /\ InitRegistry
    /\ InitFrames({TRUE})
    /\ IdlePrivacy
    /\ InitGlobal
    /\ InitRounds
    /\ InitThreads
    /\ InitSteps

\* The lifecycle of the default connection of one peer.
DefaultConnStep ==
    \/ \E sid \in SessionIDs, peer \in AddPeers :
          SessionAdd(sid, peer, FALSE, FALSE, FALSE) /\ UNCHANGED <<framevars, pmvars, globalvars, threadvars, stepvars>>
    \/ \E sid \in SessionIDs, peer \in AddPeers :
          SessionAddExisted(peer, sid) /\ UNCHANGED <<framevars, pmvars, globalvars, threadvars, stepvars>>
    \/ StartStep
    \/ RemoveStep

NextRgbaBuild ==
    \/ DefaultConnStep
    \/ \E o \in ObjIds, d \in RgbaDisplays, f \in Frames :
          OnRgba(o, d, f) /\ UNCHANGED <<pmvars, globalvars, threadvars, stepvars>>
    \/ \E sid \in SessionIDs, d \in RgbaDisplays : SessionGetRgba(sid, d) /\ UNCHANGED <<pmvars, globalvars, threadvars, stepvars>>
    \/ \E sid \in SessionIDs, d \in RgbaDisplays : SessionNextRgba(sid, d) /\ UNCHANGED <<pmvars, globalvars, threadvars, stepvars>>

SpecRgba == InitRgba /\ [][NextRgbaBuild]_vars

\* The external-target build: the registry together with frame delivery.
InitTexture ==
    /\ feature_texture_render = TRUE
    /\ InitRegistry
    /\ InitFrames(BOOLEAN)
    /\ IdlePrivacy
    /\ InitGlobal
    /\ InitRounds
    /\ InitThreads
    /\ InitSteps

NextTexture ==
    \/ DefaultConnStep
    \/ \E o \in ObjIds, d \in TexDisplays, size \in Sizes :
          OnRgbaTexture(o, d, size) /\ UNCHANGED <<pmvars, globalvars, threadvars, stepvars>>
    \/ \E sid \in SessionIDs, d \in TexDisplays, size \in Sizes :
          SessionSetSize(sid, d, size) /\ UNCHANGED <<pmvars, globalvars, threadvars, stepvars>>
    \/ \E sid \in SessionIDs, d \in TexDisplays, ptr \in Ptrs :
          SessionRegisterTexture(sid, d, ptr) /\ UNCHANGED <<pmvars, globalvars, threadvars, stepvars>>
    \/ \E sid \in SessionIDs :
          SessionOnWaitingForImageDialogShow(sid) /\ UNCHANGED <<pmvars, globalvars, threadvars, stepvars>>

SpecTexture == InitTexture /\ [][NextTexture]_vars

\* The external-target build with several displays: the renderer of one
\* attachment of the default connection of one peer.
OneSession == {1}

\* The attachment is started at most this many times.
MaxRendererSinks == 1

NextRenderer ==
    \/ \E sid \in OneSession, peer \in AddPeers :
          SessionAdd(sid, peer, FALSE, FALSE, FALSE) /\ UNCHANGED <<framevars, pmvars, globalvars, threadvars, stepvars>>
    \/ \E sid \in OneSession, peer \in AddPeers :
          SessionAddExisted(peer, sid) /\ UNCHANGED <<framevars, pmvars, globalvars, threadvars, stepvars>>
    \/ /\ next_sink < MaxRendererSinks
       /\ \E sid \in OneSession : SessionStart(sid) /\ UNCHANGED <<framevars, pmvars, globalvars, threadvars, stepvars>>
    \/ \E sid \in OneSession :
          RemoveSessionBySessionId(sid) /\ UNCHANGED <<framevars, pmvars, globalvars, threadvars, stepvars>>
    \/ \E o \in ObjIds, multi \in BOOLEAN :
          SetPeerInfo(o, multi) /\ UNCHANGED <<pmvars, globalvars, threadvars, stepvars>>
    \/ \E o \in ObjIds, d \in Displays, size \in Sizes :
          OnRgbaTexture(o, d, size) /\ UNCHANGED <<pmvars, globalvars, threadvars, stepvars>>
    \/ \E sid \in OneSession, d \in Displays, size \in Sizes :
          SessionSetSize(sid, d, size) /\ UNCHANGED <<pmvars, globalvars, threadvars, stepvars>>
    \/ \E sid \in OneSession, d \in Displays, ptr \in Ptrs :
          SessionRegisterTexture(sid, d, ptr) /\ UNCHANGED <<pmvars, globalvars, threadvars, stepvars>>

SpecRenderer == InitTexture /\ [][NextRenderer]_vars

\* The external-target build: the displays the attachments of the default
\* connection of one peer view, without frames.
NextDisplays ==
    \/ \E sid \in SessionIDs, peer \in AddPeers :
          SessionAdd(sid, peer, FALSE, FALSE, FALSE) /\ UNCHANGED <<framevars, pmvars, globalvars, threadvars, stepvars>>
    \/ \E sid \in SessionIDs, peer \in AddPeers :
          SessionAddExisted(peer, sid) /\ UNCHANGED <<framevars, pmvars, globalvars, threadvars, stepvars>>
    \/ RemoveStep
    \/ \E sid \in SessionIDs, d \in Displays, size \in Sizes :
          SessionSetSize(sid, d, size) /\ UNCHANGED <<pmvars, globalvars, threadvars, stepvars>>
    \/ \E sid \in SessionIDs, d \in Displays, ptr \in Ptrs :
          SessionRegisterTexture(sid, d, ptr) /\ UNCHANGED <<pmvars, globalvars, threadvars, stepvars>>

SpecDisplays == InitTexture /\ [][NextDisplays]_vars

\* The privacy mode arbiter.
InitArbiter ==
    /\ feature_texture_render = FALSE
    /\ InitRegistry
    /\ InitFrames({TRUE})
    /\ InitPrivacy
    /\ InitGlobal
    /\ InitRounds
    /\ InitThreads
    /\ InitSteps

NextPrivacy ==
    \/ \E k \in KeyInputs : Switch(k) /\ UNCHANGED <<regvars, framevars, globalvars, threadvars, stepvars>>
    \/ \E k \in KeyInputs, c \in ConnIds, succeeds \in BOOLEAN :
          TurnOnPrivacy(k, c, succeeds) /\ UNCHANGED <<regvars, framevars, globalvars, threadvars, stepvars>>
    \/ \E c \in ConnIds : TurnOffPrivacy(c) /\ UNCHANGED <<regvars, framevars, globalvars, threadvars, stepvars>>
    \/ Clear /\ UNCHANGED <<regvars, framevars, globalvars, threadvars, stepvars>>
    \/ \E k \in KeyInputs : SetOption(k) /\ UNCHANGED <<regvars, framevars, globalvars, threadvars, stepvars>>

SpecPrivacy == InitArbiter /\ [][NextPrivacy]_vars

\* The event fan-out of the default connection of one peer.
NextFanout ==
    \/ DefaultConnStep
    \/ \E sid \in SessionIDs, name \in PushNames :
          PushSessionEvent(sid, name) /\ UNCHANGED <<framevars, pmvars, globalvars, threadvars, stepvars>>

SpecFanout == InitRgba /\ [][NextFanout]_vars

\* The global event streams.
InitGlobalStreams ==
    /\ feature_texture_render = FALSE
    /\ InitRegistry
    /\ InitFrames({TRUE})
    /\ IdlePrivacy
    /\ InitGlobal
    /\ InitRounds
    /\ InitThreads
    /\ InitSteps

NextGlobal ==
    \/ \E app_type \in AppTypes :
          StartGlobalEventStream(app_type) /\ UNCHANGED <<regvars, framevars, pmvars, threadvars, stepvars>>
    \/ \E app_type \in AppTypes :
          StopGlobalEventStream(app_type) /\ UNCHANGED <<regvars, framevars, pmvars, threadvars, stepvars>>
    \/ \E channel \in AppTypes, event \in GlobalEvents :
          PushGlobalEvent(channel, event) /\ UNCHANGED <<regvars, framevars, pmvars, threadvars, stepvars>>

SpecGlobal == InitGlobalStreams /\ [][NextGlobal]_vars

\* The session lifecycle with the threads spawned by session_start_
RoundStep ==
    \E o \in ObjIds, i \in LoopIds :
       LoopNewRound(o, i) /\ UNCHANGED <<regvars, framevars, pmvars, globalvars, thread_pc, lock_waiters, stepvars>>

NextRounds == Next \/ RoundStep

SpecRounds == Init /\ [][NextRounds]_vars

\* Threads running the operations concurrently
BeginStep ==
    \E t \in Threads, op \in LockOps :
       BeginOp(t, op) /\ UNCHANGED <<regvars, framevars, pmvars, globalvars, connection_round_state, stepvars>>

ThreadStep(t) ==
    LockStep(t) /\ UNCHANGED <<regvars, framevars, pmvars, globalvars, connection_round_state, stepvars>>

LockSteps == \E t \in Threads : ThreadStep(t)

NextLocks == BeginStep \/ LockSteps

SpecLocks == Init /\ [][NextLocks]_vars

\* Every thread that can take its next step takes it: a running thread is
\* scheduled, and the thread that is first in line for a lock gets it once
\* its holders have released it.
SpecLocksFair == SpecLocks /\ \A t \in Threads : WF_vars(ThreadStep(t))

\* The arbiter with turn_on_privacy taken step by step: every other caller
\* waits for the lock.
NextArbiterSteps ==
    \/ \E k \in KeyInputs, c \in ConnIds :
          TurnOnBegin(k, c) /\ UNCHANGED <<regvars, framevars, globalvars, threadvars, remove_call, insert_call, on_rgba_call>>
    \/ TurnOnClear /\ UNCHANGED <<regvars, framevars, globalvars, threadvars, remove_call, insert_call, on_rgba_call>>
    \/ TurnOnInstall /\ UNCHANGED <<regvars, framevars, globalvars, threadvars, remove_call, insert_call, on_rgba_call>>
    \/ \E succeeds \in BOOLEAN :
          TurnOnFinish(succeeds) /\ UNCHANGED <<regvars, framevars, globalvars, threadvars, remove_call, insert_call, on_rgba_call>>
    \/ \E k \in KeyInputs :
          PrivacyModeLockFree /\ Switch(k)
             /\ UNCHANGED <<regvars, framevars, globalvars, threadvars, stepvars>>
    \/ \E c \in ConnIds :
          PrivacyModeLockFree /\ TurnOffPrivacy(c)
             /\ UNCHANGED <<regvars, framevars, globalvars, threadvars, stepvars>>
    \/ PrivacyModeLockFree /\ Clear
          /\ UNCHANGED <<regvars, framevars, globalvars, threadvars, stepvars>>
    \/ PrivacyModeLockFree /\ QueryConnId
          /\ UNCHANGED <<regvars, framevars, globalvars, threadvars, stepvars>>
    \/ \E k \in KeyInputs :
          SetOption(k) /\ UNCHANGED <<regvars, framevars, globalvars, threadvars, stepvars>>

SpecArbiterSteps == InitArbiter /\ [][NextArbiterSteps]_vars

\* The registry with remove_session_by_session_id taken in its two holds of
\* SESSIONS: add and attach run between them.
NextDetach ==
    \/ AddStep
    \/ AddExistedStep
    \/ \E sid \in SessionIDs :
          RemoveLoop(sid) /\ UNCHANGED <<framevars, pmvars, globalvars, threadvars, turn_on_call, insert_call, on_rgba_call>>
    \/ RemoveFromRegistry /\ UNCHANGED <<framevars, pmvars, globalvars, threadvars, turn_on_call, insert_call, on_rgba_call>>

SpecDetach == Init /\ [][NextDetach]_vars

\* The texture build with insert_peer_session_id taken in two steps; what
\* needs SESSIONS.write() waits for the attach to return.
NextAttach ==
    \/ insert_call = NoInsert /\ AddStep
    \/ StartStep
    \/ \E o \in ObjIds, multi \in BOOLEAN :
          SetPeerInfo(o, multi) /\ UNCHANGED <<pmvars, globalvars, threadvars, stepvars>>
    \/ \E peer \in Peers, sid \in SessionIDs :
          InsertReadPeerInfo(peer, sid)
             /\ UNCHANGED <<framevars, pmvars, globalvars, threadvars,
                            turn_on_call, remove_call, on_rgba_call>>
    \/ InsertHandler /\ UNCHANGED <<framevars, pmvars, globalvars, threadvars,
                                    turn_on_call, remove_call, on_rgba_call>>

SpecAttach == InitTexture /\ [][NextAttach]_vars

\* The texture build with on_rgba taken in its two loops
NextFrameSteps ==
    \/ \E sid \in OneSession, peer \in AddPeers :
          SessionAdd(sid, peer, FALSE, FALSE, FALSE) /\ UNCHANGED <<framevars, pmvars, globalvars, threadvars, stepvars>>
    \/ /\ next_sink < MaxRendererSinks
       /\ \E sid \in OneSession : SessionStart(sid) /\ UNCHANGED <<framevars, pmvars, globalvars, threadvars, stepvars>>
    \/ \E o \in ObjIds, d \in Displays, size \in Sizes :
          OnRgbaRead(o, d, size)
             /\ UNCHANGED <<pmvars, globalvars, threadvars,
                            turn_on_call, remove_call, insert_call>>
    \/ OnRgbaWrite /\ UNCHANGED <<pmvars, globalvars, threadvars,
                                  turn_on_call, remove_call, insert_call>>
    \/ \E sid \in OneSession, d \in Displays, size \in Sizes :
          SessionSetSize(sid, d, size) /\ UNCHANGED <<pmvars, globalvars, threadvars, stepvars>>

SpecFrameSteps == InitTexture /\ [][NextFrameSteps]_vars

====
